---- MODULE Spec2Model ----
(***************************************************************************)
(* Model of udemy-autocoupons: the CoursesStore (courses_store.py), the    *)
(* course identities (udemy_course.py) and the Enroller worker             *)
(* (enroller/enroller.py) fed by the multithreading queue that the         *)
(* QueueManager (queue_manager.py) and main (__main__.py) fill.            *)
(***************************************************************************)
EXTENDS Naturals, Integers, Sequences, FiniteSets, TLC

\* ------------------------------------------------------------------ bounds
\* Number of courses put on the multithreading queue in one run.
MaxPuts == 5
\* Length of a compressed representation passed to load_compressed.
MaxCompressed == 2
\* Number of URLs the scrapers put on the async queue in one run.
MaxUrls == 3
\* Length of the error list found in errors.pickle.
MaxErrors == 1
\* ReadSpec: the calls the mutating thread makes during one __contains__.
MaxWrites == 2
\* PostsSpec: the post URLs given to _scrape_from_posts.
MaxPosts == 3

\* ------------------------------------------------------- program constants
_MAX_REATTEMPTS == 2
_MAX_CONSECUTIVE_ERRORS == 3
\* request_with_reattempts: max_attempts: int = 5
DefaultMaxAttempts == 5

\* --------------------------------------------------------------- identities
\* Python's None as the value of the coupon field.
None == "None"
UrlIds == {"A", "B"}
Coupons == {None, "X"}

CourseWithCoupon(url_id, coupon) ==
    [url_id |-> url_id, coupon |-> coupon, any_coupon |-> FALSE]

CourseWithAnyCoupon(url_id) ==
    [url_id |-> url_id, coupon |-> None, any_coupon |-> TRUE]

\* A with_any_coupon that keeps the coupon of the course, for comparison.
with_any_coupon_keeps_coupon(course) == [course EXCEPT !.any_coupon = TRUE]

with_any_coupon(course) == CourseWithAnyCoupon(course.url_id)

is_with_any_coupon(course) == course.any_coupon

is_with_specific_coupon(course) == ~course.any_coupon

\* Every CourseWithCoupon (the items of the multithreading queue).
SpecificCourses == {CourseWithCoupon(u, c) : u \in UrlIds, c \in Coupons}
\* Every CourseWithAnyCoupon.
AnyCourses == {CourseWithAnyCoupon(u) : u \in UrlIds}
UdemyCourseT == SpecificCourses \cup AnyCourses

\* The None that ends the multithreading queue.
NoneItem == [none |-> TRUE]

\* The outcomes of UdemyDriver.enroll that the Enroller tells apart.
State == {"ENROLLED", "TO_BLACKLIST", "PAID", "ERROR"}

\* ------------------------------------------------------------ CoursesStore
\* CoursesStore(): the empty store. _any_coupon is a dict keyed by url_id.
CoursesStore == [_any_coupon |-> << >>, _specific_coupon |-> {}]

\* Mutant of __contains__: membership without subsumption (an any-coupon entry
\* covers only the any-coupon course itself).
__contains__exact(self, course) ==
    IF course.any_coupon
    THEN course.url_id \in DOMAIN self._any_coupon
    ELSE course \in self._specific_coupon

__contains__(self, course) ==
    IF course.url_id \in DOMAIN self._any_coupon
    THEN TRUE
    ELSE IF course.any_coupon THEN FALSE ELSE course \in self._specific_coupon

\* dict[key] = value
DictSet(d, key, value) ==
    [k \in DOMAIN d \cup {key} |-> IF k = key THEN value ELSE d[k]]

\* dict.pop(key) of a present key
DictPop(d, key) == [k \in DOMAIN d \ {key} |-> d[k]]

\* _add without the containment check, for comparison.
_add_unchecked(self, course) ==
    IF is_with_any_coupon(course)
    THEN [self EXCEPT !._any_coupon = DictSet(@, course.url_id, course)]
    ELSE [self EXCEPT !._specific_coupon = @ \cup {course}]

\* An _add that keeps an any-coupon course out of the store while a specific
\* coupon of the same url_id is in it, for comparison.
_add_specific_blocks_any(self, course) ==
    IF __contains__(self, course)
    THEN self
    ELSE IF is_with_any_coupon(course)
         THEN IF \E c \in self._specific_coupon : c.url_id = course.url_id
              THEN self
              ELSE [self EXCEPT !._any_coupon = DictSet(@, course.url_id, course)]
         ELSE [self EXCEPT !._specific_coupon = @ \cup {course}]

_add(self, course) ==
    IF __contains__(self, course)
    THEN self
    ELSE IF is_with_any_coupon(course)
         THEN [self EXCEPT !._any_coupon = DictSet(@, course.url_id, course)]
         ELSE [self EXCEPT !._specific_coupon = @ \cup {course}]

\* TypeError raised by _discard: an any-coupon course whose url_id has no entry
\* falls through to the final else.
_discard_raises(self, course) ==
    /\ ~(is_with_any_coupon(course) /\ course.url_id \in DOMAIN self._any_coupon)
    /\ ~is_with_specific_coupon(course)

_discard(self, course) ==
    IF is_with_any_coupon(course) /\ course.url_id \in DOMAIN self._any_coupon
    THEN [self EXCEPT !._any_coupon = DictPop(@, course.url_id)]
    ELSE IF is_with_specific_coupon(course)
         THEN [self EXCEPT !._specific_coupon = @ \ {course}]
         ELSE self

\* CoursesStore.__len__
__len__(self) ==
    Cardinality(DOMAIN self._any_coupon) + Cardinality(self._specific_coupon)

\* The specific courses that optimize is to remove.
Redundant(self) ==
    {c \in self._specific_coupon : c.url_id \in DOMAIN self._any_coupon}

\* An optimize that removes any specific course it comes to first, covered or
\* not, for comparison.
optimize_any_specific(self) ==
    IF self._specific_coupon = {}
    THEN {[store |-> self, exception |-> None]}
    ELSE {[store |-> [self EXCEPT !._specific_coupon = @ \ {c}],
           exception |-> "RuntimeError"] : c \in self._specific_coupon}

\* optimize removes from self._specific_coupon inside the for loop over it: after
\* the first remove the set iterator raises RuntimeError ("Set changed size
\* during iteration"). The first redundant course of the iteration, whichever
\* the set's order makes it, is removed; without one the loop completes.
optimize(self) ==
    IF Redundant(self) = {}
    THEN {[store |-> self, exception |-> None]}
    ELSE {[store |-> [self EXCEPT !._specific_coupon = @ \ {c}],
           exception |-> "RuntimeError"] : c \in Redundant(self)}

\* dataclasses.astuple(specific_coupon)
astuple(course) == <<course.url_id, course.coupon, course.any_coupon>>

\* The two kinds of element of a compressed representation: a str (the key of
\* an any-coupon course) and a tuple.
StrEntry(url_id) == [str |-> url_id]
TupleEntry(course) == [tuple |-> astuple(course)]
isinstance_str(entry) == "str" \in DOMAIN entry

\* The orders in which a set or the keys of a dict can be iterated.
Orders(S) ==
    {f \in [1..Cardinality(S) -> S] : \A i, j \in DOMAIN f : f[i] = f[j] => i = j}

\* create_compressed: optimize, then the keys of _any_coupon followed by the
\* tuples of _specific_coupon; an exception of optimize propagates.
create_compressed(self) ==
    UNION {IF o.exception # None
           THEN {[store |-> o.store, exception |-> o.exception,
                  compressed |-> << >>]}
           ELSE {[store |-> o.store, exception |-> None,
                  compressed |-> [i \in DOMAIN ks |-> StrEntry(ks[i])]
                                 \o [i \in DOMAIN cs |-> TupleEntry(cs[i])]] :
                    ks \in Orders(DOMAIN o.store._any_coupon),
                    cs \in Orders(o.store._specific_coupon)} :
           o \in optimize(self)}

\* CourseWithCoupon(*compressed_course)
CourseFromTuple(t) == [url_id |-> t[1], coupon |-> t[2], any_coupon |-> t[3]]

RECURSIVE load_compressed(_, _)
load_compressed(self, compressed) ==
    IF compressed = << >>
    THEN self
    ELSE load_compressed(
             IF isinstance_str(Head(compressed))
             THEN _add(self, CourseWithAnyCoupon(Head(compressed).str))
             ELSE _add(self, CourseFromTuple(Head(compressed).tuple)),
             Tail(compressed))

\* ----------------------------------------------------------------- Enroller
VARIABLES
    courses_store,        \* the CoursesStore shared by main and the Enroller
    mt_queue,             \* items waiting on the multithreading queue
    unfinished_tasks,     \* the queue's count of items put and not yet task_done
    puts,                 \* number of courses put on the queue so far
    none_put,             \* the terminal None has been put on the queue
    _errors,              \* Enroller._errors
    _enrolled_counter,    \* Enroller._enrolled_counter
    _consecutive_errors,  \* Enroller._consecutive_errors
    _attempts,            \* Enroller._attempts (defaultdict(int))
    _reattempt_queue,     \* Enroller._reattempt_queue
    pc,                   \* where the worker thread is in enroll_from_queue
    driver_calls,         \* per course, the results of UdemyDriver.enroll so far
    taken,                \* per course, how often the worker took it from the queue
    trip,                 \* what the worker saw when ConsecutiveErrors was raised
    taken_after_trip,     \* the courses taken from the queue by the except clause
    last_op,              \* StoreSpec: the last store operation applied
    added_any,            \* StoreSpec: url_ids added as any-coupon, not discarded
    exception,            \* StoreSpec: the exception the last operation raised
    compressed,           \* StoreSpec: what the last operation returned, << >> for None
    main_pc,              \* RunSpec: where main is
    _task,                \* RunSpec: state of the task running _process_courses
    async_queue,          \* RunSpec: items waiting on QueueManager.async_queue
    async_unfinished,     \* RunSpec: async_queue's count of items not yet task_done
    produced,             \* RunSpec: per scraper, the number of URLs it has put
    put_log,              \* RunSpec: every put on the multithreading queue, in order
    errors,               \* RunSpec: main's ThreadSafeList of errors
    new_errors_queue,     \* RunSpec: the queue run_driver reports errors on
    pickles,              \* RunSpec: contents of errors.pickle, courses_store.pickle
    written,              \* RunSpec: the pickles written by this run
    _lock,                \* LockSpec: the thread that holds CoursesStore._lock, or 0
    thread_call,          \* LockSpec: per thread, the method it calls on the store
    thread_todo,          \* LockSpec: per thread, the _add/_discard calls still to make
    thread_pc,            \* LockSpec: per thread, where it is in its call
    thread_local,         \* LockSpec: per thread, the branch its last test chose
    store0,               \* LockSpec: the store before the calls
    reader_course,        \* ReadSpec: the course of the __contains__ call
    reader_pc,            \* ReadSpec: where the __contains__ call is
    reader_result,        \* ReadSpec: what the __contains__ call returned
    contained_throughout, \* ReadSpec: the store contained reader_course at
                          \* every instant of the call so far
    writer_todo,          \* ReadSpec: the _add/_discard/optimize calls that the
                          \* other thread still makes
    stop_event,           \* the threading.Event the scrapers are given
    max_attempts,         \* RequestSpec: argument of request_with_reattempts
    attempts,             \* RequestSpec: its local attempts
    request_pc,           \* RequestSpec: where the call is
    sent,                 \* RequestSpec: the outcome of each _send_req so far
    sent_after_stop,      \* RequestSpec: requests sent with the event set
    request_result,       \* RequestSpec: what the call returned
    urls,                 \* PostsSpec: argument of _scrape_from_posts
    url_index,            \* PostsSpec: position of its for loop
    errored,              \* PostsSpec: its local errored
    _pending,             \* PostsSpec: FreebiesGlobalScraper._pending
    posts_pc,             \* PostsSpec: where the call is
    post_outcome          \* PostsSpec: per url, what _scrape_from_post did

enroller_vars == <<_errors, _enrolled_counter, _consecutive_errors, _attempts,
                   _reattempt_queue, pc, driver_calls, taken, trip,
                   taken_after_trip>>
queue_vars == <<mt_queue, unfinished_tasks, puts, none_put>>
read_vars == <<reader_course, reader_pc, reader_result, contained_throughout,
               writer_todo>>
request_vars == <<max_attempts, attempts, request_pc, sent, sent_after_stop,
                  request_result>>
posts_vars == <<urls, url_index, errored, _pending, posts_pc, post_outcome>>
scraper_vars == <<stop_event, request_vars, posts_vars>>
lock_vars == <<_lock, thread_call, thread_todo, thread_pc, thread_local, store0,
               read_vars, scraper_vars>>
store_spec_vars == <<last_op, added_any, exception, compressed, lock_vars>>
run_vars == <<main_pc, _task, async_queue, async_unfinished, produced, put_log,
              errors, new_errors_queue, pickles, written>>
vars == <<courses_store, queue_vars, enroller_vars, store_spec_vars, run_vars>>

\* The fields of the Enroller that _handle_enroll and its callees read and write,
\* with the driver's record of calls; raised: ConsecutiveErrors is propagating.
Self ==
    [_courses_store |-> courses_store,
     _errors |-> _errors,
     _enrolled_counter |-> _enrolled_counter,
     _consecutive_errors |-> _consecutive_errors,
     _attempts |-> _attempts,
     _reattempt_queue |-> _reattempt_queue,
     _driver |-> driver_calls,
     raised |-> FALSE]

\* Mutant of _handle_error: one reattempt too many (<= for <).
_handle_error_extra_reattempt(self, course) ==
    LET s == [self EXCEPT !._consecutive_errors = @ + 1] IN
    IF s._consecutive_errors > _MAX_CONSECUTIVE_ERRORS
    THEN [s EXCEPT !._errors = Append(@, course), !.raised = TRUE]
    ELSE IF s._attempts[course] <= _MAX_REATTEMPTS
         THEN [s EXCEPT !._attempts[course] = @ + 1,
                        !._reattempt_queue = Append(@, course)]
         ELSE [s EXCEPT !._errors = Append(@, course)]

\* Mutant of _handle_error: the breaker records the course but does not raise.
_handle_error_no_raise(self, course) ==
    LET s == [self EXCEPT !._consecutive_errors = @ + 1] IN
    IF s._consecutive_errors > _MAX_CONSECUTIVE_ERRORS
    THEN [s EXCEPT !._errors = Append(@, course)]
    ELSE IF s._attempts[course] < _MAX_REATTEMPTS
         THEN [s EXCEPT !._attempts[course] = @ + 1,
                        !._reattempt_queue = Append(@, course)]
         ELSE [s EXCEPT !._errors = Append(@, course)]

\* Mutant of _handle_error: a course that exhausted its reattempts is dropped.
_handle_error_drops_exhausted(self, course) ==
    LET s == [self EXCEPT !._consecutive_errors = @ + 1] IN
    IF s._consecutive_errors > _MAX_CONSECUTIVE_ERRORS
    THEN [s EXCEPT !._errors = Append(@, course), !.raised = TRUE]
    ELSE IF s._attempts[course] < _MAX_REATTEMPTS
         THEN [s EXCEPT !._attempts[course] = @ + 1,
                        !._reattempt_queue = Append(@, course)]
         ELSE s

\* Mutant of _handle_error: a course that exhausted its reattempts is also
\* added to the store.
_handle_error_blacklists(self, course) ==
    LET s == [self EXCEPT !._consecutive_errors = @ + 1] IN
    IF s._consecutive_errors > _MAX_CONSECUTIVE_ERRORS
    THEN [s EXCEPT !._errors = Append(@, course), !.raised = TRUE]
    ELSE IF s._attempts[course] < _MAX_REATTEMPTS
         THEN [s EXCEPT !._attempts[course] = @ + 1,
                        !._reattempt_queue = Append(@, course)]
         ELSE [s EXCEPT !._errors = Append(@, course),
                        !._courses_store = _add(@, course)]

\* A _handle_error that puts the course at the head of the reattempt queue
\* (appendleft), for comparison.
_handle_error_appendleft(self, course) ==
    LET s == [self EXCEPT !._consecutive_errors = @ + 1] IN
    IF s._consecutive_errors > _MAX_CONSECUTIVE_ERRORS
    THEN [s EXCEPT !._errors = Append(@, course), !.raised = TRUE]
    ELSE IF s._attempts[course] < _MAX_REATTEMPTS
         THEN [s EXCEPT !._attempts[course] = @ + 1,
                        !._reattempt_queue = <<course>> \o @]
         ELSE [s EXCEPT !._errors = Append(@, course)]

\* A _handle_error that enqueues without counting the attempt, for comparison.
_handle_error_uncounted(self, course) ==
    LET s == [self EXCEPT !._consecutive_errors = @ + 1] IN
    IF s._consecutive_errors > _MAX_CONSECUTIVE_ERRORS
    THEN [s EXCEPT !._errors = Append(@, course), !.raised = TRUE]
    ELSE IF s._attempts[course] < _MAX_REATTEMPTS
         THEN [s EXCEPT !._reattempt_queue = Append(@, course)]
         ELSE [s EXCEPT !._errors = Append(@, course)]

\* A _handle_error that counts the attempt first and enqueues only if the new
\* count is below _MAX_REATTEMPTS, for comparison.
_handle_error_increment_first(self, course) ==
    LET s == [self EXCEPT !._consecutive_errors = @ + 1] IN
    IF s._consecutive_errors > _MAX_CONSECUTIVE_ERRORS
    THEN [s EXCEPT !._errors = Append(@, course), !.raised = TRUE]
    ELSE LET s1 == [s EXCEPT !._attempts[course] = @ + 1] IN
         IF s1._attempts[course] < _MAX_REATTEMPTS
         THEN [s1 EXCEPT !._reattempt_queue = Append(@, course)]
         ELSE [s1 EXCEPT !._errors = Append(@, course)]

_handle_error(self, course) ==
    LET s == [self EXCEPT !._consecutive_errors = @ + 1] IN
    IF s._consecutive_errors > _MAX_CONSECUTIVE_ERRORS
    THEN [s EXCEPT !._errors = Append(@, course), !.raised = TRUE]
    ELSE IF s._attempts[course] < _MAX_REATTEMPTS
         THEN [s EXCEPT !._attempts[course] = @ + 1,
                        !._reattempt_queue = Append(@, course)]
         ELSE [s EXCEPT !._errors = Append(@, course)]

\* Mutant of _handle_state: ENROLLED and TO_BLACKLIST add the course with its
\* own coupon.
_handle_state_adds_specific(self, course, state) ==
    LET s1 == IF state = "ENROLLED"
              THEN [self EXCEPT !._enrolled_counter = @ + 1]
              ELSE self
        s2 == IF state # "ERROR"
              THEN [s1 EXCEPT !._consecutive_errors = 0]
              ELSE s1
    IN  IF state \in {"ENROLLED", "TO_BLACKLIST", "PAID"}
        THEN [s2 EXCEPT !._courses_store = _add(@, course)]
        ELSE _handle_error(s2, course)

\* Mutant of _handle_state: PAID adds the any-coupon course as well.
_handle_state_paid_any(self, course, state) ==
    LET s1 == IF state = "ENROLLED"
              THEN [self EXCEPT !._enrolled_counter = @ + 1]
              ELSE self
        s2 == IF state # "ERROR"
              THEN [s1 EXCEPT !._consecutive_errors = 0]
              ELSE s1
    IN  IF state \in {"ENROLLED", "TO_BLACKLIST", "PAID"}
        THEN [s2 EXCEPT !._courses_store = _add(@, with_any_coupon(course))]
        ELSE _handle_error(s2, course)

\* A _handle_state that leaves the consecutive-error counter alone, for
\* comparison.
_handle_state_keeps_counter(self, course, state) ==
    LET s1 == IF state = "ENROLLED"
              THEN [self EXCEPT !._enrolled_counter = @ + 1]
              ELSE self
    IN  IF state \in {"ENROLLED", "TO_BLACKLIST"}
        THEN [s1 EXCEPT !._courses_store = _add(@, with_any_coupon(course))]
        ELSE IF state = "PAID"
             THEN [s1 EXCEPT !._courses_store = _add(@, course)]
             ELSE _handle_error(s1, course)

_handle_state(self, course, state) ==
    LET s1 == IF state = "ENROLLED"
              THEN [self EXCEPT !._enrolled_counter = @ + 1]
              ELSE self
        s2 == IF state # "ERROR"
              THEN [s1 EXCEPT !._consecutive_errors = 0]
              ELSE s1
    IN  IF state \in {"ENROLLED", "TO_BLACKLIST"}
        THEN [s2 EXCEPT !._courses_store = _add(@, with_any_coupon(course))]
        ELSE IF state = "PAID"
             THEN [s2 EXCEPT !._courses_store = _add(@, course)]
             ELSE _handle_error(s2, course)

\* Mutant of _handle_enroll: no check of the store before the call.
_handle_enroll_unchecked(self, course, state) ==
    _handle_state([self EXCEPT !._driver[course] = Append(@, state)],
                  course, state)

\* state is what self._driver.enroll(course) returns if it is called.
_handle_enroll(self, course, state) ==
    IF __contains__(self._courses_store, course)
    THEN self
    ELSE _handle_state([self EXCEPT !._driver[course] = Append(@, state)],
                       course, state)

\* Mutant of except_ConsecutiveErrors: the pending reattempts are dropped.
except_ConsecutiveErrors_drop(self) == self

\* except ConsecutiveErrors: self._errors.extend(self._reattempt_queue)
except_ConsecutiveErrors(self) ==
    [self EXCEPT !._errors = @ \o self._reattempt_queue]

\* Stores load_courses_store can return: none persisted yet, or a persisted
\* compressed store with an any-coupon entry or with a specific entry.
InitStores ==
    {CoursesStore,
     _add(CoursesStore, CourseWithAnyCoupon("B")),
     _add(CoursesStore, CourseWithCoupon("A", "X"))}

NoTrip == [tripped |-> FALSE, phase |-> "none", course |-> NoneItem,
           pending |-> << >>]

\* The state after Enroller.__init__, with the store load_courses_store returned
\* and nothing on the queue yet.
InitEnroller ==
    /\ mt_queue = << >>
    /\ unfinished_tasks = 0
    /\ puts = 0
    /\ none_put = FALSE
    /\ _errors = << >>
    /\ _enrolled_counter = 0
    /\ _consecutive_errors = 0
    /\ _attempts = [c \in SpecificCourses |-> 0]
    /\ _reattempt_queue = << >>
    /\ driver_calls = [c \in SpecificCourses |-> << >>]
    /\ taken = [c \in SpecificCourses |-> 0]
    /\ trip = NoTrip
    /\ taken_after_trip = << >>
    /\ last_op = [op |-> "init", course |-> NoneItem]
    /\ added_any = {}
    /\ exception = None
    /\ compressed = << >>

\* The scrapers: two producers of URLs.
Scrapers == {1, 2}

\* main, the QueueManager and the pickles before main has done anything.
InitRun ==
    /\ main_pc = "load"
    /\ _task = "running"
    /\ async_queue = << >>
    /\ async_unfinished = 0
    /\ produced = [p \in Scrapers |-> 0]
    /\ put_log = << >>
    /\ errors = << >>
    /\ new_errors_queue = << >>
    /\ pickles = [errors |-> << >>, courses_store |-> << >>]
    /\ written = {}

\* The threads that call the store concurrently.
Threads == {1, 2}

\* No thread is calling the store.
\* No __contains__ call is under way.
InitRead ==
    /\ reader_course = NoneItem
    /\ reader_pc = "idle"
    /\ reader_result = None
    /\ contained_throughout = FALSE
    /\ writer_todo = << >>

\* No call of request_with_reattempts or _scrape_from_posts is under way.
InitScrapers ==
    /\ stop_event = FALSE
    /\ max_attempts = 0
    /\ attempts = 0
    /\ request_pc = "idle"
    /\ sent = << >>
    /\ sent_after_stop = 0
    /\ request_result = NoneItem
    /\ urls = << >>
    /\ url_index = 1
    /\ errored = FALSE
    /\ _pending = << >>
    /\ posts_pc = "idle"
    /\ post_outcome = << >>

InitLock ==
    /\ _lock = 0
    /\ thread_call = [t \in Threads |-> NoneItem]
    /\ thread_todo = [t \in Threads |-> << >>]
    /\ thread_pc = [t \in Threads |-> "done"]
    /\ thread_local = [t \in Threads |-> None]
    /\ store0 = CoursesStore
    /\ InitRead
    /\ InitScrapers

\* The worker thread is at the first get of _enroll_from_queue.
Init ==
    /\ courses_store \in InitStores
    /\ pc = "get"
    /\ InitEnroller
    /\ InitRun
    /\ InitLock

\* A task_done that does not count, for comparison.
task_done_lost(unfinished) == unfinished

\* Queue.task_done(): one unfinished task less.
task_done(unfinished) == unfinished - 1

\* mt_queue.put(course): main puts each loaded error, _process_courses each
\* parsed course, always before the terminal None.
mt_queue_put(course) ==
    /\ ~none_put
    /\ puts < MaxPuts
    /\ mt_queue' = Append(mt_queue, course)
    /\ unfinished_tasks' = unfinished_tasks + 1
    /\ puts' = puts + 1
    /\ UNCHANGED <<courses_store, none_put, enroller_vars, store_spec_vars, run_vars>>

\* QueueManager.__aexit__: self.mp_queue.put(None)
mt_queue_put_None ==
    /\ ~none_put
    /\ mt_queue' = Append(mt_queue, NoneItem)
    /\ unfinished_tasks' = unfinished_tasks + 1
    /\ none_put' = TRUE
    /\ UNCHANGED <<courses_store, puts, enroller_vars, store_spec_vars, run_vars>>

\* The Enroller's fields after a call of _handle_enroll that left them as r;
\* a raised ConsecutiveErrors is caught in enroll_from_queue, which extends
\* _errors and goes on to the except clause's loop.
Assign(r, phase, course) ==
    LET x == IF r.raised THEN except_ConsecutiveErrors(r) ELSE r IN
    /\ courses_store' = x._courses_store
    /\ _errors' = x._errors
    /\ _enrolled_counter' = x._enrolled_counter
    /\ _consecutive_errors' = x._consecutive_errors
    /\ _attempts' = x._attempts
    /\ _reattempt_queue' = x._reattempt_queue
    /\ driver_calls' = x._driver
    /\ pc' = IF r.raised THEN "except" ELSE phase
    /\ trip' = IF r.raised
               THEN [tripped |-> TRUE, phase |-> phase, course |-> course,
                     pending |-> r._reattempt_queue]
               ELSE trip

\* One iteration of the first loop of _enroll_from_queue: get, _handle_enroll,
\* task_done; a None ends the loop.
_enroll_from_queue_get ==
    /\ pc = "get"
    /\ mt_queue # << >>
    /\ mt_queue' = Tail(mt_queue)
    /\ LET course == Head(mt_queue) IN
       IF course = NoneItem
       THEN /\ pc' = "reattempt"
            /\ UNCHANGED <<courses_store, unfinished_tasks, _errors,
                           _enrolled_counter, _consecutive_errors, _attempts,
                           _reattempt_queue, driver_calls, taken, trip>>
       ELSE \E state \in State :
              LET r == _handle_enroll(Self, course, state) IN
              /\ Assign(r, "get", course)
              /\ taken' = [taken EXCEPT ![course] = @ + 1]
              /\ unfinished_tasks' =
                     IF r.raised THEN unfinished_tasks ELSE task_done(unfinished_tasks)
    /\ UNCHANGED <<puts, none_put, taken_after_trip, store_spec_vars, run_vars>>

\* One iteration of the second loop of _enroll_from_queue: popleft, _handle_enroll.
_enroll_from_queue_reattempt ==
    /\ pc = "reattempt"
    /\ _reattempt_queue # << >>
    /\ LET course == Head(_reattempt_queue) IN
       \E state \in State :
          LET r == _handle_enroll(
                       [Self EXCEPT !._reattempt_queue = Tail(@)], course, state)
          IN  Assign(r, "reattempt", course)
    /\ UNCHANGED <<queue_vars, taken, taken_after_trip, store_spec_vars, run_vars>>

\* _enroll_from_queue returned normally: the last task_done, return self._errors.
enroll_from_queue_return ==
    /\ pc = "reattempt"
    /\ _reattempt_queue = << >>
    /\ unfinished_tasks' = task_done(unfinished_tasks)
    /\ pc' = "returned"
    /\ UNCHANGED <<courses_store, mt_queue, puts, none_put, _errors,
                   _enrolled_counter, _consecutive_errors, _attempts,
                   _reattempt_queue, driver_calls, taken, trip, taken_after_trip,
                   store_spec_vars, run_vars>>

\* One iteration of the loop of the except clause: get blocks while the queue is
\* empty; a course goes to _errors, a None ends the loop and the method returns
\* after the two task_done calls.
enroll_from_queue_except ==
    /\ pc = "except"
    /\ mt_queue # << >>
    /\ mt_queue' = Tail(mt_queue)
    /\ LET course == Head(mt_queue) IN
       IF course = NoneItem
       THEN /\ unfinished_tasks' = task_done(task_done(unfinished_tasks))
            /\ pc' = "returned"
            /\ UNCHANGED <<_errors, taken, taken_after_trip>>
       ELSE /\ _errors' = Append(_errors, course)
            /\ unfinished_tasks' = task_done(unfinished_tasks)
            /\ taken' = [taken EXCEPT ![course] = @ + 1]
            /\ taken_after_trip' = Append(taken_after_trip, course)
            /\ pc' = pc
    /\ UNCHANGED <<courses_store, puts, none_put, _enrolled_counter,
                   _consecutive_errors, _attempts, _reattempt_queue, driver_calls,
                   trip, store_spec_vars, run_vars>>

Next ==
    \/ \E course \in SpecificCourses : mt_queue_put(course)
    \/ mt_queue_put_None
    \/ _enroll_from_queue_get
    \/ _enroll_from_queue_reattempt
    \/ enroll_from_queue_return
    \/ enroll_from_queue_except

Spec == Init /\ [][Next]_vars

\* ---------------------------------------------------------------- StoreSpec
\* The store's mutation methods applied in any order to a store that starts
\* empty, with any course as the argument.
StoreInit ==
    /\ courses_store = CoursesStore
    /\ pc = "store"
    /\ InitEnroller
    /\ InitRun
    /\ InitLock

\* CoursesStore.add(course)
add(course) ==
    /\ pc = "store"
    /\ courses_store' = _add(courses_store, course)
    /\ last_op' = [op |-> "add", course |-> course]
    /\ added_any' = IF is_with_any_coupon(course)
                    THEN added_any \cup {course.url_id}
                    ELSE added_any
    /\ exception' = None
    /\ compressed' = << >>
    /\ UNCHANGED <<queue_vars, enroller_vars, run_vars, lock_vars>>

\* CoursesStore.discard(course)
discard(course) ==
    /\ pc = "store"
    /\ courses_store' = _discard(courses_store, course)
    /\ last_op' = [op |-> "discard", course |-> course]
    /\ added_any' = IF is_with_any_coupon(course)
                    THEN added_any \ {course.url_id}
                    ELSE added_any
    /\ exception' = IF _discard_raises(courses_store, course)
                    THEN "TypeError"
                    ELSE None
    /\ compressed' = << >>
    /\ UNCHANGED <<queue_vars, enroller_vars, run_vars, lock_vars>>

\* CoursesStore.optimize()
store_optimize ==
    /\ pc = "store"
    /\ \E o \in optimize(courses_store) :
          /\ courses_store' = o.store
          /\ exception' = o.exception
    /\ last_op' = [op |-> "optimize", course |-> NoneItem]
    /\ compressed' = << >>
    /\ UNCHANGED <<queue_vars, enroller_vars, run_vars, lock_vars, added_any>>

\* CoursesStore.create_compressed()
store_create_compressed ==
    /\ pc = "store"
    /\ \E o \in create_compressed(courses_store) :
          /\ courses_store' = o.store
          /\ exception' = o.exception
          /\ compressed' = o.compressed
    /\ last_op' = [op |-> "create_compressed", course |-> NoneItem]
    /\ UNCHANGED <<queue_vars, enroller_vars, run_vars, lock_vars, added_any>>

\* The compressed representations given to load_compressed: any sequence of
\* str and tuple elements up to MaxCompressed.
CompressedEntries ==
    {StrEntry(u) : u \in UrlIds} \cup {TupleEntry(c) : c \in SpecificCourses}

CompressedInputs ==
    UNION {[1..n -> CompressedEntries] : n \in 0..MaxCompressed}

\* CoursesStore.load_compressed(compressed)
store_load_compressed(input) ==
    /\ pc = "store"
    /\ courses_store' = load_compressed(courses_store, input)
    /\ last_op' = [op |-> "load_compressed", course |-> NoneItem]
    /\ added_any' = added_any \cup
                       {input[i].str : i \in {j \in DOMAIN input :
                                                 isinstance_str(input[j])}}
    /\ exception' = None
    /\ compressed' = << >>
    /\ UNCHANGED <<queue_vars, enroller_vars, run_vars, lock_vars>>

StoreNext ==
    \/ \E course \in UdemyCourseT : add(course)
    \/ \E course \in UdemyCourseT : discard(course)
    \/ store_optimize
    \/ store_create_compressed
    \/ \E input \in CompressedInputs : store_load_compressed(input)

StoreSpec == StoreInit /\ [][StoreNext]_vars

\* ------------------------------------------- CoursesStore under threads
\* The calls of the mutation methods, each made under `with self._lock`.
Call(op, arg) == [op |-> op, arg |-> arg]

Calls ==
    {Call("add", course) : course \in UdemyCourseT}
        \cup {Call("discard", course) : course \in UdemyCourseT}
        \cup {Call("optimize", NoneItem)}
        \cup {Call("load_compressed", input) : input \in CompressedInputs}

\* The calls of _add, _discard and the loop of optimize that a method makes,
\* in order.
Primitive(kind, course) == [kind |-> kind, course |-> course]

Primitives(call) ==
    CASE call.op = "add" -> <<Primitive("_add", call.arg)>>
      [] call.op = "discard" -> <<Primitive("_discard", call.arg)>>
      [] call.op = "optimize" -> <<Primitive("optimize", NoneItem)>>
      [] call.op = "load_compressed" ->
            [i \in DOMAIN call.arg |->
                Primitive("_add",
                          IF isinstance_str(call.arg[i])
                          THEN CourseWithAnyCoupon(call.arg[i].str)
                          ELSE CourseFromTuple(call.arg[i].tuple))]

\* The stores a call can leave when it runs alone on self.
CallResults(self, call) ==
    CASE call.op = "add" -> {_add(self, call.arg)}
      [] call.op = "discard" -> {_discard(self, call.arg)}
      [] call.op = "optimize" -> {o.store : o \in optimize(self)}
      [] call.op = "load_compressed" -> {load_compressed(self, call.arg)}

\* The stores that the two calls can leave when one runs after the other.
SequentialResults(self, call1, call2) ==
    UNION {CallResults(s, call2) : s \in CallResults(self, call1)}
        \cup UNION {CallResults(s, call1) : s \in CallResults(self, call2)}

\* No lock at all, for comparison.
RLock_acquire_unlocked(owner, t) == TRUE

\* RLock.acquire by thread t returns when the lock is free or t's own.
RLock_acquire(owner, t) == owner \in {0, t}

\* The branch that the tests of _add and _discard choose.
Branch(self, primitive) ==
    CASE primitive.kind = "_add" ->
            IF __contains__(self, primitive.course) THEN "return" ELSE "insert"
      [] primitive.kind = "_discard" ->
            IF /\ is_with_any_coupon(primitive.course)
               /\ primitive.course.url_id \in DOMAIN self._any_coupon
            THEN "pop"
            ELSE IF is_with_specific_coupon(primitive.course)
                 THEN "discard"
                 ELSE "TypeError"
      [] primitive.kind = "optimize" -> "loop"

\* What the chosen branch does to the store, and whether it raises: pop of a
\* key that is gone raises KeyError. The loop of optimize is taken as one step.
Effect(self, primitive, branch) ==
    CASE branch = "return" -> {[store |-> self, exception |-> None]}
      [] branch = "insert" ->
            {[store |->
                 IF is_with_any_coupon(primitive.course)
                 THEN [self EXCEPT !._any_coupon =
                          DictSet(@, primitive.course.url_id, primitive.course)]
                 ELSE [self EXCEPT !._specific_coupon =
                          @ \cup {primitive.course}],
              exception |-> None]}
      [] branch = "pop" ->
            IF primitive.course.url_id \in DOMAIN self._any_coupon
            THEN {[store |-> [self EXCEPT !._any_coupon =
                                 DictPop(@, primitive.course.url_id)],
                   exception |-> None]}
            ELSE {[store |-> self, exception |-> "KeyError"]}
      [] branch = "discard" ->
            {[store |-> [self EXCEPT !._specific_coupon =
                            @ \ {primitive.course}],
              exception |-> None]}
      [] branch = "TypeError" -> {[store |-> self, exception |-> "TypeError"]}
      [] branch = "loop" -> optimize(self)

\* Two threads are each about to call one mutation method of one store.
LockInit ==
    /\ courses_store \in InitStores
    /\ pc = "lock"
    /\ InitEnroller
    /\ InitRun
    /\ _lock = 0
    /\ thread_call \in [Threads -> Calls]
    /\ thread_todo = [t \in Threads |-> Primitives(thread_call[t])]
    /\ thread_pc = [t \in Threads |-> "acquire"]
    /\ thread_local = [t \in Threads |-> None]
    /\ store0 = courses_store
    /\ InitRead
    /\ InitScrapers

\* with self._lock: __enter__
lock_acquire(t) ==
    /\ thread_pc[t] = "acquire"
    /\ RLock_acquire(_lock, t)
    /\ _lock' = t
    /\ thread_pc' = [thread_pc EXCEPT ![t] =
                        IF thread_todo[t] = << >> THEN "release" ELSE "test"]
    /\ UNCHANGED <<courses_store, queue_vars, enroller_vars, run_vars, last_op,
                   added_any, exception, compressed, thread_call, thread_todo,
                   thread_local, store0,
                   read_vars, scraper_vars>>

\* The test of the next _add or _discard: `if course in self`, the if/elif
\* of _discard.
thread_test(t) ==
    /\ thread_pc[t] = "test"
    /\ thread_local' = [thread_local EXCEPT ![t] =
                           Branch(courses_store, Head(thread_todo[t]))]
    /\ thread_pc' = [thread_pc EXCEPT ![t] = "modify"]
    /\ UNCHANGED <<courses_store, queue_vars, enroller_vars, run_vars, last_op,
                   added_any, exception, compressed, _lock, thread_call,
                   thread_todo, store0,
                   read_vars, scraper_vars>>

\* The body of the chosen branch; an exception ends the method.
thread_modify(t) ==
    /\ thread_pc[t] = "modify"
    /\ \E e \in Effect(courses_store, Head(thread_todo[t]), thread_local[t]) :
          /\ courses_store' = e.store
          /\ thread_todo' = [thread_todo EXCEPT ![t] =
                                IF e.exception # None THEN << >> ELSE Tail(@)]
          /\ thread_pc' = [thread_pc EXCEPT ![t] =
                              IF thread_todo'[t] = << >>
                              THEN "release"
                              ELSE "test"]
    /\ thread_local' = [thread_local EXCEPT ![t] = None]
    /\ UNCHANGED <<queue_vars, enroller_vars, run_vars, last_op, added_any,
                   exception, compressed, _lock, thread_call, store0,
                   read_vars, scraper_vars>>

\* with self._lock: __exit__
lock_release(t) ==
    /\ thread_pc[t] = "release"
    /\ _lock' = 0
    /\ thread_pc' = [thread_pc EXCEPT ![t] = "done"]
    /\ UNCHANGED <<courses_store, queue_vars, enroller_vars, run_vars, last_op,
                   added_any, exception, compressed, thread_call, thread_todo,
                   thread_local, store0,
                   read_vars, scraper_vars>>

LockNext ==
    \E t \in Threads :
        \/ lock_acquire(t)
        \/ thread_test(t)
        \/ thread_modify(t)
        \/ lock_release(t)

LockSpec == LockInit /\ [][LockNext]_vars

\* ---------------------------------------------------------------- ReadSpec
\* __contains__ takes no lock: a thread that calls it runs between the locked
\* sections of another thread that mutates the store. The mutating thread makes
\* up to MaxWrites calls of add, discard and optimize, each of them one step
\* here.
WriterPrimitives ==
    {Primitive("_add", course) : course \in UdemyCourseT}
        \cup {Primitive("_discard", course) : course \in UdemyCourseT}
        \cup {Primitive("optimize", NoneItem)}

\* One thread begins `reader_course in courses_store`, the other is about to
\* make the calls of writer_todo.
ReadInit ==
    /\ courses_store \in InitStores
    /\ pc = "read"
    /\ InitEnroller
    /\ InitRun
    /\ _lock = 0
    /\ thread_call = [t \in Threads |-> NoneItem]
    /\ thread_todo = [t \in Threads |-> << >>]
    /\ thread_pc = [t \in Threads |-> "done"]
    /\ thread_local = [t \in Threads |-> None]
    /\ store0 = courses_store
    /\ reader_course \in UdemyCourseT
    /\ reader_pc = "any_coupon"
    /\ reader_result = None
    /\ contained_throughout = __contains__(courses_store, reader_course)
    /\ writer_todo \in UNION {[1..n -> WriterPrimitives] : n \in 0..MaxWrites}
    /\ InitScrapers

\* __contains__: `if course.url_id in self._any_coupon: return True`, and
\* `return False if course.any_coupon else ...` for an any-coupon course.
__contains__read_any_coupon ==
    /\ pc = "read"
    /\ reader_pc = "any_coupon"
    /\ IF reader_course.url_id \in DOMAIN courses_store._any_coupon
       THEN reader_pc' = "returned" /\ reader_result' = TRUE
       ELSE IF reader_course.any_coupon
            THEN reader_pc' = "returned" /\ reader_result' = FALSE
            ELSE reader_pc' = "specific_coupon" /\ reader_result' = reader_result
    /\ UNCHANGED <<courses_store, queue_vars, enroller_vars, run_vars, last_op,
                   added_any, exception, compressed, _lock, thread_call,
                   thread_todo, thread_pc, thread_local, store0, reader_course,
                   contained_throughout, writer_todo, scraper_vars>>

\* __contains__: `course in self._specific_coupon`
__contains__read_specific_coupon ==
    /\ pc = "read"
    /\ reader_pc = "specific_coupon"
    /\ reader_result' = (reader_course \in courses_store._specific_coupon)
    /\ reader_pc' = "returned"
    /\ UNCHANGED <<courses_store, queue_vars, enroller_vars, run_vars, last_op,
                   added_any, exception, compressed, _lock, thread_call,
                   thread_todo, thread_pc, thread_local, store0, reader_course,
                   contained_throughout, writer_todo, scraper_vars>>

\* The other thread makes its next call: add, discard or optimize, whole, under
\* the lock. contained_throughout follows the store while the reader's call
\* lasts.
writer_call ==
    /\ pc = "read"
    /\ writer_todo # << >>
    /\ \E e \in Effect(courses_store, Head(writer_todo),
                       Branch(courses_store, Head(writer_todo))) :
          /\ courses_store' = e.store
          /\ contained_throughout' =
                IF reader_pc = "returned"
                THEN contained_throughout
                ELSE contained_throughout /\ __contains__(e.store, reader_course)
    /\ writer_todo' = Tail(writer_todo)
    /\ UNCHANGED <<queue_vars, enroller_vars, run_vars, last_op, added_any,
                   exception, compressed, _lock, thread_call, thread_todo,
                   thread_pc, thread_local, store0, reader_course, reader_pc,
                   reader_result,
                   scraper_vars>>

ReadNext ==
    \/ __contains__read_any_coupon
    \/ __contains__read_specific_coupon
    \/ writer_call

ReadSpec == ReadInit /\ [][ReadNext]_vars

\* -------------------------------------------------------------- RequestSpec
\* What the specifications of the scrapers' helpers leave alone.
program_vars == <<courses_store, queue_vars, enroller_vars, run_vars, last_op,
                  added_any, exception, compressed, _lock, thread_call,
                  thread_todo, thread_pc, thread_local, store0, read_vars>>

\* The exceptions of _send_req that request_with_reattempts catches.
Caught == {"ClientError", "BadStatusCodeError", "TimeoutError"}

\* What awaiting _send_req can give: the body, a caught exception, or an
\* exception of res.json() / res.text() that is not caught (ValueError).
SendReqOutcomes == {"body", "ValueError"} \cup Caught

\* A loop that allows one request more, for comparison.
attempts_left_inclusive(n, max) == n <= max

\* while attempts < max_attempts
attempts_left(n, max) == n < max

\* request_with_reattempts is called with max_attempts up to its default; the
\* event may be set already.
RequestInit ==
    /\ courses_store = CoursesStore
    /\ pc = "request"
    /\ InitEnroller
    /\ InitRun
    /\ _lock = 0
    /\ thread_call = [t \in Threads |-> NoneItem]
    /\ thread_todo = [t \in Threads |-> << >>]
    /\ thread_pc = [t \in Threads |-> "done"]
    /\ thread_local = [t \in Threads |-> None]
    /\ store0 = CoursesStore
    /\ InitRead
    /\ stop_event \in BOOLEAN
    /\ max_attempts \in 0..DefaultMaxAttempts
    /\ attempts = 0
    /\ request_pc = "while"
    /\ sent = << >>
    /\ sent_after_stop = 0
    /\ request_result = NoneItem
    /\ urls = << >>
    /\ url_index = 1
    /\ errored = FALSE
    /\ _pending = << >>
    /\ posts_pc = "idle"
    /\ post_outcome = << >>

\* Event.set(), by the thread that asks for an early stop.
stop_event_set ==
    /\ pc \in {"request", "posts"}
    /\ ~stop_event
    /\ stop_event' = TRUE
    /\ UNCHANGED <<program_vars, request_vars, posts_vars>>

\* The head of the loop: the loop condition, the test of the event, and the
\* request being sent.
request_while ==
    /\ pc = "request"
    /\ request_pc = "while"
    /\ IF ~attempts_left(attempts, max_attempts)
       THEN /\ request_pc' = "returned"
            /\ request_result' = NoneItem
            /\ UNCHANGED <<sent, sent_after_stop>>
       ELSE IF stop_event
            THEN /\ request_pc' = "returned"
                 /\ request_result' = NoneItem
                 /\ UNCHANGED <<sent, sent_after_stop>>
            ELSE /\ request_pc' = "await"
                 /\ sent' = Append(sent, "pending")
                 /\ sent_after_stop' =
                       IF stop_event THEN sent_after_stop + 1 ELSE sent_after_stop
                 /\ UNCHANGED request_result
    /\ UNCHANGED <<program_vars, stop_event, max_attempts, attempts, posts_vars>>

\* await _send_req(...) ends (the client's timeout bounds it): return res_body,
\* or the except clause, or an exception that leaves the function.
_send_req ==
    /\ pc = "request"
    /\ request_pc = "await"
    /\ \E outcome \in SendReqOutcomes :
          /\ sent' = [sent EXCEPT ![Len(sent)] = outcome]
          /\ IF outcome = "body"
             THEN /\ request_pc' = "returned"
                  /\ request_result' = [body |-> Len(sent)]
                  /\ UNCHANGED attempts
             ELSE IF outcome \in Caught
                  THEN /\ request_pc' = "sleep"
                       /\ attempts' = attempts + 1
                       /\ UNCHANGED request_result
                  ELSE /\ request_pc' = "raised"
                       /\ UNCHANGED <<attempts, request_result>>
    /\ UNCHANGED <<program_vars, stop_event, max_attempts, sent_after_stop,
                   posts_vars>>

\* await sleep(wait); continue
request_sleep ==
    /\ pc = "request"
    /\ request_pc = "sleep"
    /\ request_pc' = "while"
    /\ UNCHANGED <<program_vars, stop_event, max_attempts, attempts, sent,
                   sent_after_stop, request_result, posts_vars>>

RequestStep == request_while \/ _send_req \/ request_sleep

RequestNext ==
    \/ stop_event_set
    \/ request_while
    \/ _send_req
    \/ request_sleep

\* The coroutine is scheduled again after every await.
RequestSpec == RequestInit /\ [][RequestNext]_vars /\ WF_vars(RequestStep)

\* ---------------------------------------------------------------- PostsSpec
\* FreebiesGlobalScraper._scrape_from_posts over a list of distinct post URLs
\* (numbered), with the event that another thread may set.
PostUrls == 1..MaxPosts

\* What _scrape_from_post can do with a post: the request gave None; the page
\* was fetched and skipped; the page was fetched and its links were put on the
\* async queue.
PostOutcomes == {"None", "skipped", "links"}

\* What request_with_reattempts can return to _scrape_from_post: None whenever
\* the event is set at the call, else None (every attempt failed, or the event
\* was set meanwhile) or the html.
request_with_reattempts(event_is_set) ==
    IF event_is_set THEN {"None"} ELSE {"None", "html"}

_scrape_from_posts_Init ==
    /\ courses_store = CoursesStore
    /\ pc = "posts"
    /\ InitEnroller
    /\ InitRun
    /\ _lock = 0
    /\ thread_call = [t \in Threads |-> NoneItem]
    /\ thread_todo = [t \in Threads |-> << >>]
    /\ thread_pc = [t \in Threads |-> "done"]
    /\ thread_local = [t \in Threads |-> None]
    /\ store0 = CoursesStore
    /\ InitRead
    /\ stop_event \in BOOLEAN
    /\ max_attempts = 0
    /\ attempts = 0
    /\ request_pc = "idle"
    /\ sent = << >>
    /\ sent_after_stop = 0
    /\ request_result = NoneItem
    /\ urls \in UNION {Orders(S) : S \in SUBSET PostUrls}
    /\ url_index = 1
    /\ errored = FALSE
    /\ _pending = << >>
    /\ posts_pc = "for"
    /\ post_outcome = [u \in PostUrls |-> "none"]

\* The head of one iteration of the for loop: `if self._stop_event.is_set() or
\* errored: self._pending.append(url)`, with nothing that leaves the iteration;
\* then the sleep.
_scrape_from_posts_for ==
    /\ pc = "posts"
    /\ posts_pc = "for"
    /\ url_index <= Len(urls)
    /\ _pending' = IF stop_event \/ errored
                   THEN Append(_pending, urls[url_index])
                   ELSE _pending
    /\ posts_pc' = "post"
    /\ UNCHANGED <<program_vars, stop_event, request_vars, urls, url_index,
                   errored, post_outcome>>

\* `if await self._scrape_from_post(url) is False: errored = True`:
\* _scrape_from_post appends the url to _pending and returns False when the
\* request gave None; else it skips the post or puts its links and returns
\* True.
_scrape_from_post ==
    /\ pc = "posts"
    /\ posts_pc = "post"
    /\ \E html \in request_with_reattempts(stop_event) :
          IF html = "None"
          THEN /\ _pending' = Append(_pending, urls[url_index])
               /\ errored' = TRUE
               /\ post_outcome' = [post_outcome EXCEPT ![urls[url_index]] = "None"]
          ELSE /\ \E page \in PostOutcomes \ {"None"} :
                     post_outcome' =
                        [post_outcome EXCEPT ![urls[url_index]] = page]
               /\ UNCHANGED <<_pending, errored>>
    /\ url_index' = url_index + 1
    /\ posts_pc' = "for"
    /\ UNCHANGED <<program_vars, stop_event, request_vars, urls>>

\* The for loop is exhausted.
_scrape_from_posts_return ==
    /\ pc = "posts"
    /\ posts_pc = "for"
    /\ url_index > Len(urls)
    /\ posts_pc' = "done"
    /\ UNCHANGED <<program_vars, stop_event, request_vars, urls, url_index,
                   errored, _pending, post_outcome>>

PostsNext ==
    \/ stop_event_set
    \/ _scrape_from_posts_for
    \/ _scrape_from_post
    \/ _scrape_from_posts_return

PostsSpec == _scrape_from_posts_Init /\ [][PostsNext]_vars

\* ------------------------------------------------- QueueManager and main
\* A URL as from_url takes it apart: the netloc and the path (split at "/") of
\* urlsplit, and what parse_qs(query, strict_parsing=True) makes of the query:
\* a ValueError (valid = FALSE) or the values of couponCode.
Url(netloc, path, valid, couponCode) ==
    [netloc |-> netloc, path |-> path,
     query |-> [valid |-> valid, couponCode |-> couponCode]]

\* ""
EmptyUrl == Url("", <<"">>, TRUE, << >>)

\* "https://www.udemy.com/course/A/?couponCode=X", "https://udemy.com/course/B/",
\* "https://example.com/course/A/?bad" and "".
Urls ==
    {Url("www.udemy.com", <<"", "course", "A", "">>, TRUE, <<"X">>),
     Url("udemy.com", <<"", "course", "B", "">>, TRUE, << >>),
     Url("example.com", <<"", "course", "A", "">>, FALSE, << >>),
     EmptyUrl}

\* _UdemyCourse.verify
verify(netloc, path) ==
    LET is_udemy == netloc \in {"udemy.com", "www.udemy.com"}
        has_course_url_id ==
            /\ Len(path) >= 3
            /\ path[1] = ""
            /\ path[2] = "course"
            /\ (path[3] # "" \/ Len(path) > 3)
    IN  is_udemy /\ has_course_url_id

\* CourseWithCoupon.from_url(url); NoneItem stands for the None it returns.
from_url(url) ==
    IF ~url.query.valid
    THEN NoneItem
    ELSE IF ~verify(url.netloc, url.path)
         THEN NoneItem
         ELSE CourseWithCoupon(url.path[3],
                               IF url.query.couponCode # << >>
                               THEN url.query.couponCode[1]
                               ELSE None)

\* CourseWithCoupon.from_url(url, any_coupon=True)
from_url_any_coupon(url) ==
    IF ~url.query.valid
    THEN NoneItem
    ELSE IF ~verify(url.netloc, url.path)
         THEN NoneItem
         ELSE CourseWithAnyCoupon(url.path[3])

\* The truth value of an item of the async queue in `while url := ...`.
bool(url) == url # NoneItem /\ url # EmptyUrl

\* QueueManager._seen: created empty, and nothing is ever added to it.
_seen == {}

\* An item of the async queue, with the scraper that put it and its number
\* among that scraper's puts.
AsyncItem(url, producer, seq) == [url |-> url, producer |-> producer, seq |-> seq]

\* A queue that hands out its newest item first, for comparison.
async_queue_get_last(queue) ==
    [item |-> queue[Len(queue)], rest |-> SubSeq(queue, 1, Len(queue) - 1)]

\* await self.async_queue.get()
async_queue_get(queue) == [item |-> Head(queue), rest |-> Tail(queue)]

\* A main that does not put the loaded errors, for comparison.
main_put_no_errors(queue, errs) == queue

\* main: for error in errors: mt_queue.put(error)
main_put_errors(queue, errs) == queue \o errs

\* load_errors, ThreadSafeList(previous)
load_errors(pickle) == IF pickle # << >> THEN pickle ELSE << >>

\* load_courses_store
load_courses_store(pickle) ==
    IF pickle # << >> THEN load_compressed(CoursesStore, pickle) ELSE CoursesStore

\* An entry of the log of puts on the multithreading queue.
PutEntry(origin, producer, seq, item) ==
    [origin |-> origin, producer |-> producer, seq |-> seq, item |-> item]

\* The error lists and stores a previous run can have left in the pickles.
ErrorCourses == {CourseWithCoupon("A", None), CourseWithCoupon("B", None)}

ErrorLists == UNION {[1..n -> ErrorCourses] : n \in 0..MaxErrors}

InitCompressed ==
    {<< >>, <<StrEntry("B")>>, <<TupleEntry(CourseWithCoupon("A", "X"))>>}

\* main has not started; the worker thread does not exist yet.
RunInit ==
    /\ courses_store = CoursesStore
    /\ pc = "not_started"
    /\ InitEnroller
    /\ main_pc = "load"
    /\ _task = "running"
    /\ async_queue = << >>
    /\ async_unfinished = 0
    /\ produced = [p \in Scrapers |-> 0]
    /\ put_log = << >>
    /\ errors = << >>
    /\ new_errors_queue = << >>
    /\ pickles \in {[errors |-> e, courses_store |-> c] :
                       e \in ErrorLists, c \in InitCompressed}
    /\ written = {}
    /\ InitLock

\* main up to thread.start(): load the store and the errors, create the
\* QueueManager, put the loaded errors on the multithreading queue and start the
\* thread of run_driver. Nothing else runs before that: the task of
\* _process_courses gets its first turn at main's next await.
main_start ==
    /\ main_pc = "load"
    /\ courses_store' = load_courses_store(pickles.courses_store)
    /\ errors' = load_errors(pickles.errors)
    /\ mt_queue' = main_put_errors(mt_queue, errors')
    /\ LET n == Len(mt_queue') - Len(mt_queue) IN
       /\ unfinished_tasks' = unfinished_tasks + n
       /\ puts' = puts + n
       /\ put_log' = put_log \o
                        [i \in 1..n |-> PutEntry("errors", 0, i,
                                                    mt_queue'[Len(mt_queue) + i])]
    /\ pc' = "get"
    /\ main_pc' = "scrapers"
    /\ UNCHANGED <<none_put, _errors, _enrolled_counter, _consecutive_errors,
                   _attempts, _reattempt_queue, driver_calls, taken, trip,
                   taken_after_trip, store_spec_vars, _task, async_queue,
                   async_unfinished, produced, new_errors_queue, pickles, written>>

\* A scraper: await self._queue.put(url)
scraper_put(p, url) ==
    /\ main_pc = "scrapers"
    /\ produced[1] + produced[2] < MaxUrls
    /\ produced' = [produced EXCEPT ![p] = @ + 1]
    /\ async_queue' = Append(async_queue, AsyncItem(url, p, produced'[p]))
    /\ async_unfinished' = async_unfinished + 1
    /\ UNCHANGED <<courses_store, queue_vars, enroller_vars, store_spec_vars,
                   main_pc, _task, put_log, errors, new_errors_queue, pickles,
                   written>>

\* The scrapers have finished; QueueManager.__aexit__:
\* await self.async_queue.put(None)
__aexit__put_None ==
    /\ main_pc = "scrapers"
    /\ async_queue' = Append(async_queue, AsyncItem(NoneItem, 0, 0))
    /\ async_unfinished' = async_unfinished + 1
    /\ main_pc' = "async_join"
    /\ UNCHANGED <<courses_store, queue_vars, enroller_vars, store_spec_vars,
                   _task, produced, put_log, errors, new_errors_queue, pickles,
                   written>>

\* One iteration of the loop of _process_courses, or its end: the loop ends at
\* the first item that is not truthy.
_process_courses ==
    /\ _task = "running"
    /\ async_queue # << >>
    /\ LET got == async_queue_get(async_queue)
           url == got.item.url
           course == from_url(url)
       IN  /\ async_queue' = got.rest
           /\ async_unfinished' = async_unfinished - 1
           /\ IF ~bool(url)
              THEN /\ _task' = "done"
                   /\ UNCHANGED <<queue_vars, put_log>>
              ELSE /\ _task' = _task
                   /\ IF course # NoneItem /\ course \notin _seen
                      THEN /\ mt_queue' = Append(mt_queue, course)
                           /\ unfinished_tasks' = unfinished_tasks + 1
                           /\ puts' = puts + 1
                           /\ put_log' = Append(put_log,
                                  PutEntry("bridge", got.item.producer,
                                           got.item.seq, course))
                           /\ UNCHANGED none_put
                      ELSE UNCHANGED <<queue_vars, put_log>>
    /\ UNCHANGED <<courses_store, enroller_vars, store_spec_vars, main_pc,
                   produced, errors, new_errors_queue, pickles, written>>

\* QueueManager.__aexit__: async_queue.join() and the task have returned;
\* self.mp_queue.put(None)
__aexit__mp_queue_put_None ==
    /\ main_pc = "async_join"
    /\ async_unfinished = 0
    /\ _task = "done"
    /\ mt_queue' = Append(mt_queue, NoneItem)
    /\ unfinished_tasks' = unfinished_tasks + 1
    /\ none_put' = TRUE
    /\ put_log' = Append(put_log, PutEntry("__aexit__", 0, 0, NoneItem))
    /\ main_pc' = "mp_join"
    /\ UNCHANGED <<courses_store, puts, enroller_vars, store_spec_vars, _task,
                   async_queue, async_unfinished, produced, errors,
                   new_errors_queue, pickles, written>>

\* An __aexit__ that does not wait for the multithreading queue, for comparison.
__aexit__return_no_join ==
    /\ main_pc = "mp_join"
    /\ main_pc' = "thread_join"
    /\ UNCHANGED <<courses_store, queue_vars, enroller_vars, store_spec_vars,
                   _task, async_queue, async_unfinished, produced, put_log,
                   errors, new_errors_queue, pickles, written>>

\* QueueManager.__aexit__: self.mp_queue.join() has returned
__aexit__return ==
    /\ main_pc = "mp_join"
    /\ unfinished_tasks = 0
    /\ main_pc' = "thread_join"
    /\ UNCHANGED <<courses_store, queue_vars, enroller_vars, store_spec_vars,
                   _task, async_queue, async_unfinished, produced, put_log,
                   errors, new_errors_queue, pickles, written>>

\* _run_driver after enroll_from_queue returned: put every error on the errors
\* queue, then the thread ends.
_run_driver_return ==
    /\ pc = "returned"
    /\ new_errors_queue' = new_errors_queue \o _errors
    /\ pc' = "exited"
    /\ UNCHANGED <<courses_store, queue_vars, _errors, _enrolled_counter,
                   _consecutive_errors, _attempts, _reattempt_queue,
                   driver_calls, taken, trip, taken_after_trip, store_spec_vars,
                   main_pc, _task, async_queue, async_unfinished, produced,
                   put_log, errors, pickles, written>>

\* main after thread.join(): errors.clear(), move the new errors into errors,
\* save_courses_store, save_errors. An exception of create_compressed ends main
\* before anything is saved.
main_save ==
    /\ main_pc = "thread_join"
    /\ pc = "exited"
    /\ errors' = new_errors_queue
    /\ new_errors_queue' = << >>
    /\ \E o \in create_compressed(courses_store) :
          /\ courses_store' = o.store
          /\ IF o.exception # None
             THEN /\ main_pc' = "raised"
                  /\ UNCHANGED <<pickles, written>>
             ELSE /\ main_pc' = "done"
                  /\ pickles' = [courses_store |-> o.compressed,
                                 errors |-> errors']
                  /\ written' = {"courses_store.pickle", "errors.pickle"}
    /\ UNCHANGED <<queue_vars, enroller_vars, store_spec_vars, _task,
                   async_queue, async_unfinished, produced, put_log>>

RunNext ==
    \/ main_start
    \/ \E p \in Scrapers, url \in Urls : scraper_put(p, url)
    \/ __aexit__put_None
    \/ _process_courses
    \/ __aexit__mp_queue_put_None
    \/ __aexit__return
    \/ _enroll_from_queue_get
    \/ _enroll_from_queue_reattempt
    \/ enroll_from_queue_return
    \/ enroll_from_queue_except
    \/ _run_driver_return
    \/ main_save

RunSpec == RunInit /\ [][RunNext]_vars

\* ------------------------------------------------------------------ helpers
Last(seq) == seq[Len(seq)]

Range(seq) == {seq[i] : i \in DOMAIN seq}

\* How often x occurs in seq.
Count(seq, x) == Cardinality({i \in DOMAIN seq : seq[i] = x})

\* The driver was called on course and its last call returned one of states.
LastResultIn(course, states) ==
    /\ driver_calls[course] # << >>
    /\ Last(driver_calls[course]) \in states

\* Every call of the driver on course so far returned ERROR.
OnlyErrors(course) == \A i \in DOMAIN driver_calls[course] :
                          driver_calls[course][i] = "ERROR"

\* Some coupon of the course of c was enrolled or blacklisted in this run.
CourseDone(c) ==
    \E d \in SpecificCourses :
        d.url_id = c.url_id /\ LastResultIn(d, {"ENROLLED", "TO_BLACKLIST"})

\* The step calls self._driver.enroll(c).
EnrollCalled(c) == Len(driver_calls'[c]) > Len(driver_calls[c])

\* ------------------------------------------------------------------- claims

\* C1: the Enroller never calls Enroll on a course that the store contains at
\* the moment of the call, in the first loop and in the reattempt loop: no call
\* for any coupon of a course that has an any-coupon entry or that was Enrolled
\* or ToBlacklist earlier in the run, and no call for a (url_id, coupon) that
\* has a specific entry or whose last call returned Paid.
C1_NoEnrollOnContained ==
    [][\A c \in SpecificCourses :
         EnrollCalled(c) =>
            /\ ~__contains__(courses_store, c)
            /\ c.url_id \notin DOMAIN courses_store._any_coupon
            /\ c \notin courses_store._specific_coupon
            /\ ~CourseDone(c)
            /\ ~LastResultIn(c, {"PAID"})]_vars

\* C1 witness: the run returned without a trip; one course was taken from the
\* queue and never passed to Enroll because another coupon of it had been
\* enrolled, and one failed once, was enqueued for reattempt and was skipped
\* in the reattempt loop.
C1_Witness ==
    /\ pc = "returned"
    /\ ~trip.tripped
    /\ \E c \in SpecificCourses :
          /\ taken[c] > 0
          /\ driver_calls[c] = << >>
          /\ CourseDone(c)
    /\ \E c \in SpecificCourses :
          /\ driver_calls[c] = <<"ERROR">>
          /\ _attempts[c] = 1
          /\ c \notin Range(_errors)
          /\ CourseDone(c)

\* C2 (subsumption): after add of the any-coupon course of a url_id, and until
\* that any-coupon course is discarded, the store contains the specific course
\* (url_id, coupon) for every coupon, the absent coupon included.
C2_Subsumption ==
    \A u \in added_any : \A coupon \in Coupons :
        __contains__(courses_store, CourseWithCoupon(u, coupon))

\* C2 witness: the any-coupon course of A was added, no specific course was
\* ever kept in the store, and (A, None) and (A, X) are contained.
C2_Witness ==
    /\ last_op = [op |-> "add", course |-> CourseWithAnyCoupon("A")]
    /\ "A" \in added_any
    /\ courses_store._specific_coupon = {}
    /\ __contains__(courses_store, CourseWithCoupon("A", None))
    /\ __contains__(courses_store, CourseWithCoupon("A", "X"))

\* A course that is taken once, is passed to Enroll at least once and always
\* gets ERROR.
AlwaysErrorOnce(c) ==
    /\ taken[c] = 1
    /\ driver_calls[c] # << >>
    /\ OnlyErrors(c)

\* C3 as stated (retry bound): in a run that returns without a trip, a course
\* that occurs once in the input and for which Enroll always returns ERROR is
\* passed to Enroll exactly 1 + _MAX_REATTEMPTS times and is in the returned
\* error list.
C3_RetryBound_Original ==
    (pc = "returned" /\ ~trip.tripped) =>
        \A c \in SpecificCourses :
            AlwaysErrorOnce(c) =>
                /\ Len(driver_calls[c]) = 1 + _MAX_REATTEMPTS
                /\ c \in Range(_errors)

\* C3 amended: the same, for a course no coupon of which is Enrolled or
\* ToBlacklist in the run (so that the store never comes to contain it).
C3_RetryBound ==
    (pc = "returned" /\ ~trip.tripped) =>
        \A c \in SpecificCourses :
            (AlwaysErrorOnce(c) /\ ~CourseDone(c)) =>
                /\ Len(driver_calls[c]) = 1 + _MAX_REATTEMPTS
                /\ Count(_errors, c) = 1

\* C3 witness: a clean return with a course taken once, tried three times with
\* ERROR each time, in the error list.
C3_Witness ==
    /\ pc = "returned"
    /\ ~trip.tripped
    /\ \E c \in SpecificCourses :
          /\ taken[c] = 1
          /\ driver_calls[c] = <<"ERROR", "ERROR", "ERROR">>
          /\ ~CourseDone(c)
          /\ Count(_errors, c) = 1

\* C4: once the consecutive-error counter exceeds _MAX_CONSECUTIVE_ERRORS, no
\* further Enroll call is made, and the worker is in neither loop of
\* _enroll_from_queue again: it is in the except clause or has returned.
C4_NoEnrollAfterTrip ==
    [][(_consecutive_errors > _MAX_CONSECUTIVE_ERRORS) =>
          /\ driver_calls' = driver_calls
          /\ pc \in {"except", "returned"}
          /\ pc' \in {"except", "returned"}]_vars

\* C4 witness: after a trip in the first loop the worker returned, with courses
\* taken from the queue after the trip and with reattempts pending at the trip.
C4_Witness ==
    /\ pc = "returned"
    /\ trip.tripped
    /\ trip.phase = "get"
    /\ _consecutive_errors > _MAX_CONSECUTIVE_ERRORS
    /\ taken_after_trip # << >>
    /\ _reattempt_queue # << >>

\* C5: from the trip on, the error list (the list enroll_from_queue returns)
\* holds the course whose Error tripped the breaker, every course pending in
\* the reattempt queue at the trip and every course taken from the queue after
\* the trip, each at least as often as it occurs among these.
C5_TripKeepsAll ==
    trip.tripped =>
        \A c \in SpecificCourses :
            Count(_errors, c) >= Count(trip.pending, c)
                                 + Count(taken_after_trip, c)
                                 + (IF trip.course = c THEN 1 ELSE 0)

\* C5 witness: the worker returned after a trip at which two reattempts were
\* pending, having taken a course after the trip that is none of them.
C5_Witness ==
    /\ pc = "returned"
    /\ trip.tripped
    /\ Len(trip.pending) >= 2
    /\ \E c \in Range(taken_after_trip) :
          c \notin Range(trip.pending) /\ c # trip.course /\ c \in Range(_errors)

\* The worker thread's steps.
Worker ==
    \/ _enroll_from_queue_get
    \/ _enroll_from_queue_reattempt
    \/ enroll_from_queue_return
    \/ enroll_from_queue_except

\* The worker thread keeps running while it can (every Enroll call returns), and
\* QueueManager.__aexit__ puts the None once the scrapers are done.
FairSpec == Spec /\ WF_vars(Worker) /\ WF_vars(mt_queue_put_None)

\* The worker waits in the get of the except clause, the queue is empty and the
\* only None of the run was put (and taken) before: nothing is ever put again.
BlockedForever ==
    /\ pc = "except"
    /\ mt_queue = << >>
    /\ none_put

\* C6: a trip leads to orderly termination, in the first loop and in the
\* reattempt loop alike: once the None is put and every Enroll call returns,
\* enroll_from_queue returns its error list.
C6_TripTerminates == trip.tripped ~> (pc = "returned")

\* C6, its safety part: the worker never blocks forever on the queue.
C6_NeverBlocksForever == ~BlockedForever

\* C7: when enroll_from_queue returns, with or without a trip, every course
\* taken from the queue during the run is contained in the store or is in the
\* returned error list.
C7_NoWorkLost ==
    pc = "returned" =>
        \A c \in SpecificCourses :
            taken[c] > 0 =>
                \/ __contains__(courses_store, c)
                \/ c \in Range(_errors)

\* C7 witness: a clean return after which one taken course is in the error
\* list and not in the store, and another is in the store after PAID.
C7_Witness ==
    /\ pc = "returned"
    /\ ~trip.tripped
    /\ \E c \in SpecificCourses :
          /\ taken[c] > 0
          /\ c \in Range(_errors)
          /\ ~__contains__(courses_store, c)
    /\ \E c \in SpecificCourses :
          /\ taken[c] > 0
          /\ LastResultIn(c, {"PAID"})
          /\ c \in courses_store._specific_coupon
          /\ c \notin Range(_errors)

\* The step is the call of Enroll on c that returns state.
EnrollReturned(c, state) == driver_calls'[c] = Append(driver_calls[c], state)

\* C8: when Enroll returns ENROLLED or TO_BLACKLIST for (url_id, coupon), the
\* step adds the any-coupon course of url_id; from then on the store contains
\* (url_id, c) for every coupon c; and no step of the run removes an entry.
C8_EnrolledAddsAnyCoupon ==
    [][/\ \A c \in SpecificCourses :
            (EnrollReturned(c, "ENROLLED") \/ EnrollReturned(c, "TO_BLACKLIST")) =>
                /\ c.url_id \in DOMAIN courses_store'._any_coupon
                /\ courses_store'._any_coupon[c.url_id]
                       = CourseWithAnyCoupon(c.url_id)
       /\ \A c \in SpecificCourses :
            CourseDone(c)' => __contains__(courses_store, c)'
       /\ DOMAIN courses_store._any_coupon
              \subseteq DOMAIN courses_store'._any_coupon
       /\ courses_store._specific_coupon
              \subseteq courses_store'._specific_coupon]_vars

\* C8 witness: (A, X) was blacklisted; (A, None), never inserted and never
\* passed to Enroll, was taken from the queue and is contained.
C8_Witness ==
    /\ LastResultIn(CourseWithCoupon("A", "X"), {"TO_BLACKLIST"})
    /\ taken[CourseWithCoupon("A", None)] > 0
    /\ driver_calls[CourseWithCoupon("A", None)] = << >>
    /\ courses_store._specific_coupon = {}
    /\ __contains__(courses_store, CourseWithCoupon("A", None))

\* The step is the worker taking course from the multithreading queue in the
\* first loop, or from the reattempt queue in the second.
Handles(course) ==
    \/ /\ pc = "get"
       /\ mt_queue # << >>
       /\ Head(mt_queue) = course
       /\ mt_queue' = Tail(mt_queue)
    \/ /\ pc = "reattempt"
       /\ _reattempt_queue # << >>
       /\ Head(_reattempt_queue) = course
       /\ pc' # "returned"

\* C9: when Enroll returns PAID for (url_id, coupon), the step adds exactly
\* that specific course: the any-coupon dict is unchanged and no other course
\* becomes contained; and a course the worker handles is passed to Enroll
\* whenever its url_id has no any-coupon entry and it has no specific entry,
\* whatever other coupons of its url_id have specific entries.
C9_PaidAddsSpecific ==
    [][/\ \A c \in SpecificCourses :
            EnrollReturned(c, "PAID") =>
                /\ courses_store'._specific_coupon
                       = courses_store._specific_coupon \cup {c}
                /\ courses_store'._any_coupon = courses_store._any_coupon
                /\ __contains__(courses_store, c)'
                /\ \A d \in SpecificCourses \ {c} :
                       __contains__(courses_store, d)'
                           = __contains__(courses_store, d)
       /\ \A c \in SpecificCourses :
            (/\ Handles(c)
             /\ c.url_id \notin DOMAIN courses_store._any_coupon
             /\ c \notin courses_store._specific_coupon) => EnrollCalled(c)]_vars

\* C9 witness: (A, None) got PAID and (A, X), passed to Enroll afterwards, got
\* ENROLLED (had (A, X) been enrolled first, (A, None) would have been skipped).
C9_Witness ==
    /\ driver_calls[CourseWithCoupon("A", None)] = <<"PAID">>
    /\ LastResultIn(CourseWithCoupon("A", "X"), {"ENROLLED"})
    /\ CourseWithCoupon("A", None) \in courses_store._specific_coupon

\* C10: a call of Enroll that returns ERROR leaves the store as it was, whether
\* the course is enqueued for reattempt, recorded as a final error, or trips
\* the breaker.
C10_ErrorLeavesStore ==
    [][\A c \in SpecificCourses :
          EnrollReturned(c, "ERROR") => courses_store' = courses_store]_vars

\* C10 witness: after errors that enqueued reattempts, recorded a final error
\* and tripped the breaker, the store is still the empty one.
C10_Witness ==
    /\ trip.tripped
    /\ courses_store = CoursesStore
    /\ trip.pending # << >>
    /\ \E c \in SpecificCourses :
          /\ c # trip.course
          /\ _attempts[c] = _MAX_REATTEMPTS
          /\ Len(driver_calls[c]) = 1 + _MAX_REATTEMPTS
          /\ c \in Range(_errors)

\* ------------------------------------------------------------------ C11
\* C11: for every store, whatever mix of any-coupon and specific courses it
\* holds, optimize() completes (raises nothing) and afterwards no specific
\* course shares its url_id with an any-coupon course.
C11_CompactionCorrect ==
    last_op.op = "optimize" =>
        /\ exception = None
        /\ Redundant(courses_store) = {}

\* ------------------------------------------------------------------ C12
\* C12: for every store S, create_compressed() returns a representation whose
\* load into an empty store gives a store that contains exactly the courses S
\* contains.
C12_RoundTrip ==
    [][last_op'.op = "create_compressed" =>
          /\ exception' = None
          /\ \A course \in UdemyCourseT :
                __contains__(load_compressed(CoursesStore, compressed'), course)
                    <=> __contains__(courses_store, course)]_vars

\* ------------------------------------------------------------------ C15
\* C15: add(x) followed by add(x) leaves the any-coupon dict and the specific
\* set that the first add(x) left; add(x) on a store that contains x (a specific
\* x covered only by an any-coupon course included) changes neither, so the
\* length of the store stays the same.
C15_AddIdempotent ==
    [][last_op'.op = "add" =>
          /\ _add(courses_store', last_op'.course) = courses_store'
          /\ __contains__(courses_store, last_op'.course) =>
                /\ courses_store' = courses_store
                /\ __len__(courses_store') = __len__(courses_store)]_vars

\* A specific course covered only by an any-coupon course has just been added.
C15_Witness ==
    /\ last_op.op = "add"
    /\ is_with_specific_coupon(last_op.course)
    /\ last_op.course.url_id \in DOMAIN courses_store._any_coupon
    /\ last_op.course \notin courses_store._specific_coupon
    /\ __len__(courses_store) = 2

\* ------------------------------------------------------------------ C16
\* The course has an entry of its own in the store.
HasEntry(self, course) ==
    IF is_with_any_coupon(course)
    THEN course.url_id \in DOMAIN self._any_coupon
    ELSE course \in self._specific_coupon

\* C16: discard(x) of a course x that has no entry in the store, any-coupon or
\* specific, raises nothing and leaves the any-coupon dict and the specific set
\* as they were.
C16_DiscardAbsentNoop ==
    [][(last_op'.op = "discard" /\ ~HasEntry(courses_store, last_op'.course)) =>
          /\ exception' = None
          /\ courses_store' = courses_store]_vars

\* ------------------------------------------------------------------ C13
\* C13: when main has ended after the worker finished, both pickles have been
\* written, the compressed store and the errors, and the saved errors are
\* exactly the list enroll_from_queue returned in this run.
C13_BothPicklesSaved ==
    main_pc \in {"done", "raised"} =>
        /\ written = {"courses_store.pickle", "errors.pickle"}
        /\ pickles.errors = _errors

\* ------------------------------------------------------------------ C14
\* The course was attempted in this run.
Attempted(course) == driver_calls[course] # << >>

\* C14: the errors of errors.pickle are the first puts on the multithreading
\* queue, in their order, ahead of every course forwarded by _process_courses
\* and of the None; when enroll_from_queue has returned, each of them was
\* attempted, is contained in the store, or is in the returned errors.
C14_ErrorsReattemptedFirst ==
    main_pc \in {"scrapers", "async_join", "mp_join", "thread_join"} =>
        /\ errors = pickles.errors
        /\ Len(put_log) >= Len(errors)
        /\ \A i \in DOMAIN put_log :
              IF i <= Len(errors)
              THEN put_log[i] = PutEntry("errors", 0, i, errors[i])
              ELSE put_log[i].origin # "errors"
        /\ pc \in {"returned", "exited"} =>
              \A i \in DOMAIN errors :
                  \/ Attempted(errors[i])
                  \/ __contains__(courses_store, errors[i])
                  \/ errors[i] \in Range(_errors)

\* enroll_from_queue has returned in a run that reattempted a loaded error and
\* then handled a forwarded course; the error failed again.
C14_Witness ==
    /\ pc = "returned"
    /\ main_pc = "mp_join"
    /\ Len(errors) = 1
    /\ Attempted(errors[1])
    /\ errors[1] \in Range(_errors)
    /\ Len(put_log) >= 3
    /\ put_log[2].origin = "bridge"

\* ------------------------------------------------------------------ C17
\* The step is an iteration of _process_courses.
ProcessStep ==
    /\ _task = "running"
    /\ async_queue # << >>
    /\ async_queue' = Tail(async_queue)

\* The step puts course on the multithreading queue.
Forwards(course) ==
    /\ put_log' = Append(put_log, Last(put_log'))
    /\ Last(put_log').origin = "bridge"
    /\ Last(put_log').item = course

\* C17: a URL that parses to a course is forwarded to the multithreading queue
\* if and only if the store does not contain the course when _process_courses
\* handles the URL.
C17_DedupAgainstStore ==
    [][(/\ ProcessStep
        /\ bool(Head(async_queue).url)
        /\ from_url(Head(async_queue).url) # NoneItem) =>
          (Forwards(from_url(Head(async_queue).url))
              <=> ~__contains__(courses_store,
                                from_url(Head(async_queue).url)))]_vars

\* ------------------------------------------------------------------ C18
\* C18: a URL that does not parse to a course is acknowledged on the async
\* queue, puts nothing on the multithreading queue and leaves the task of
\* _process_courses running.
C18_ParseFailureDropped ==
    [][(/\ ProcessStep
        /\ Head(async_queue).url # NoneItem
        /\ from_url(Head(async_queue).url) = NoneItem) =>
          /\ async_unfinished' = async_unfinished - 1
          /\ put_log' = put_log
          /\ mt_queue' = mt_queue
          /\ _task' = "running"]_vars

\* ------------------------------------------------------------------ C19
\* The positions of the None in the log of puts.
Sentinels == {i \in DOMAIN put_log : put_log[i].item = NoneItem}

\* C19: at most one None is put on the multithreading queue, nothing is put
\* after it, it is put only when every item of the async queue has been
\* handled, and it is put in every run: the task of _process_courses stops only
\* when nothing is left unacknowledged on the async queue, and once
\* __aexit__ is past the put there is exactly one None.
C19_ExactlyOneSentinel ==
    /\ Cardinality(Sentinels) <= 1
    /\ \A i \in Sentinels : i = Len(put_log)
    /\ none_put => (async_queue = << >> /\ async_unfinished = 0)
    /\ main_pc \in {"mp_join", "thread_join", "done", "raised"} =>
          Cardinality(Sentinels) = 1
    /\ _task = "done" => async_unfinished = 0

\* ------------------------------------------------------------------ C20
\* C20: of two URLs of one scraper that are both forwarded, the one the scraper
\* put first is put first on the multithreading queue.
C20_PerProducerFIFO ==
    \A i, j \in DOMAIN put_log :
        (/\ i < j
         /\ put_log[i].origin = "bridge"
         /\ put_log[j].origin = "bridge"
         /\ put_log[i].producer = put_log[j].producer) =>
            put_log[i].seq < put_log[j].seq

\* Two URLs of scraper 1 were forwarded, with a URL of scraper 2 put between
\* them forwarded between them.
C20_Witness ==
    \E i \in DOMAIN put_log :
        /\ i + 2 \in DOMAIN put_log
        /\ put_log[i].origin = "bridge" /\ put_log[i].producer = 1
        /\ put_log[i + 1].origin = "bridge" /\ put_log[i + 1].producer = 2
        /\ put_log[i + 2].origin = "bridge" /\ put_log[i + 2].producer = 1
        /\ put_log[i].seq = 1 /\ put_log[i + 2].seq = 2


\* ------------------------------------------------------------------ C21
\* C21: once QueueManager.__aexit__ has returned, every item put on the async
\* queue has been acknowledged, the task of _process_courses has ended, the
\* None is the last put on the multithreading queue, behind every forwarded
\* course, and the worker has taken and acknowledged every item of that queue,
\* the None included.
C21_ClosedAfterFullDrain ==
    main_pc \in {"thread_join", "done", "raised"} =>
        /\ async_queue = << >>
        /\ async_unfinished = 0
        /\ _task = "done"
        /\ Sentinels = {Len(put_log)}
        /\ mt_queue = << >>
        /\ unfinished_tasks = 0
        /\ pc \in {"returned", "exited"}

\* __aexit__ has returned in a run in which two courses were forwarded.
C21_Witness ==
    /\ main_pc = "thread_join"
    /\ Len(put_log) >= 3
    /\ put_log[Len(put_log) - 1].origin = "bridge"
    /\ put_log[Len(put_log) - 2].origin = "bridge"


\* ------------------------------------------------------------------ C22
\* The None has been put on the multithreading queue and taken from it.
NoneTaken == none_put /\ NoneItem \notin Range(mt_queue)

\* C22: every Enroll call is for the item the worker has just taken, the head
\* of the multithreading queue in the first loop and the head of the reattempt
\* queue in the second; the reattempt queue is only appended to in the first
\* loop, with the course just taken; it is popped only after the None has been
\* taken, always at its head, and a course that fails again goes to its tail.
C22_HandlesInOrder ==
    [][/\ \A c \in SpecificCourses : EnrollCalled(c) => Handles(c)
       /\ pc = "reattempt" => NoneTaken
       /\ _reattempt_queue' # _reattempt_queue =>
             \/ /\ pc = "get"
                /\ \E c \in SpecificCourses :
                      /\ Handles(c)
                      /\ _reattempt_queue' = Append(_reattempt_queue, c)
             \/ /\ pc = "reattempt"
                /\ _reattempt_queue # << >>
                /\ _reattempt_queue' \in
                      {Tail(_reattempt_queue),
                       Append(Tail(_reattempt_queue), Head(_reattempt_queue))}
      ]_vars

\* (A, None) and (B, None) failed in the first loop, in this order; (A, None)
\* was reattempted first, failed again and is now behind (B, None).
C22_Witness ==
    /\ pc = "reattempt"
    /\ _reattempt_queue = <<CourseWithCoupon("B", None), CourseWithCoupon("A", None)>>
    /\ driver_calls[CourseWithCoupon("A", None)] = <<"ERROR", "ERROR">>
    /\ driver_calls[CourseWithCoupon("B", None)] = <<"ERROR">>
    /\ taken[CourseWithCoupon("A", None)] = 1
    /\ taken[CourseWithCoupon("B", None)] = 1


\* ------------------------------------------------------------------ C23
\* The number of calls of driver.quit(): _run_driver makes its one call after
\* enroll_from_queue has returned, just before the thread ends.
driver_quit_calls == IF pc = "exited" THEN 1 ELSE 0

\* C23: driver.quit() is called once after the worker loop has ended, however
\* it ended. After a trip of the circuit breaker, in either loop, the worker
\* has returned (and then quits) or the None that lets the except clause
\* return is still on the queue or still to be put; and quit is never called
\* before the loop has ended.
C23_QuitAfterEveryEnd ==
    /\ driver_quit_calls = 1 => (mt_queue = << >> /\ NoneTaken)
    /\ trip.tripped =>
          \/ pc \in {"returned", "exited"}
          \/ ~none_put
          \/ NoneItem \in Range(mt_queue)


\* ------------------------------------------------------------------ C24
\* C24: the test and the modification of every _add and _discard, and every
\* whole call of add, discard, optimize and load_compressed, run with the lock
\* held by the calling thread alone; when two concurrent calls have ended, the
\* any-coupon dict and the specific set are those that the two calls leave
\* when one runs after the other, in one of the two orders.
C24_Serializable ==
    /\ \A t \in Threads :
          thread_pc[t] \in {"test", "modify", "release"} =>
              /\ _lock = t
              /\ \A u \in Threads \ {t} : thread_pc[u] \in {"acquire", "done"}
    /\ (pc = "lock" /\ \A t \in Threads : thread_pc[t] = "done") =>
          courses_store \in
              SequentialResults(store0, thread_call[1], thread_call[2])

\* load_compressed(("A", ("A", "X", False))) and discard(CourseWithAnyCoupon("A"))
\* ran concurrently on an empty store and have ended; the discard came first.
C24_Witness ==
    /\ pc = "lock"
    /\ \A t \in Threads : thread_pc[t] = "done"
    /\ store0 = CoursesStore
    /\ thread_call[1].op = "load_compressed"
    /\ thread_call[1].arg =
          <<StrEntry("A"), TupleEntry(CourseWithCoupon("A", "X"))>>
    /\ thread_call[2].op = "discard"
    /\ courses_store = _add(CoursesStore, CourseWithAnyCoupon("A"))


\* ------------------------------------------------------------------ C25
\* C25: every any-coupon course has coupon None: those made by with_any_coupon
\* (which keeps the url_id), by from_url with any_coupon=True and by
\* load_compressed of a str, and so every value of the store's _any_coupon,
\* which is kept under its own url_id; the courses of _specific_coupon are
\* not any-coupon courses.
C25_AnyCouponHasNoCoupon ==
    /\ \A c \in SpecificCourses :
          with_any_coupon(c) =
              [url_id |-> c.url_id, coupon |-> None, any_coupon |-> TRUE]
    /\ \A url \in Urls :
          from_url_any_coupon(url) # NoneItem =>
              from_url_any_coupon(url) =
                  [url_id |-> from_url(url).url_id, coupon |-> None,
                   any_coupon |-> TRUE]
    /\ \A u \in UrlIds :
          load_compressed(CoursesStore, <<StrEntry(u)>>)._any_coupon[u] =
              [url_id |-> u, coupon |-> None, any_coupon |-> TRUE]
    /\ \A k \in DOMAIN courses_store._any_coupon :
          courses_store._any_coupon[k] =
              [url_id |-> k, coupon |-> None, any_coupon |-> TRUE]
    /\ \A c \in courses_store._specific_coupon : ~c.any_coupon

\* The store holds the any-coupon B loaded from the pickle and the any-coupon A
\* that the worker added after Enrolled for (A, X).
C25_Witness ==
    /\ DOMAIN courses_store._any_coupon = {"A", "B"}
    /\ pickles.courses_store = <<StrEntry("B")>>
    /\ main_pc = "scrapers"
    /\ driver_calls[CourseWithCoupon("A", "X")] = <<"ENROLLED">>


\* ------------------------------------------------------------------ C26
\* The step puts the course on the reattempt queue.
Enqueues(c) ==
    Count(_reattempt_queue', c) >
        Count(_reattempt_queue, c) - (IF pc = "reattempt" /\ Handles(c) THEN 1 ELSE 0)

\* C26: the attempt counter of a course never exceeds _MAX_REATTEMPTS; every
\* step that puts the course on the reattempt queue counts one attempt, so the
\* course is put there at most _MAX_REATTEMPTS times, however often it comes
\* from the queue; and an Error of the course that neither enqueues it nor
\* trips the breaker finds the counter at _MAX_REATTEMPTS and records the
\* course as an error.
C26_ReattemptCap ==
    [][\A c \in SpecificCourses :
          /\ _attempts[c] <= _MAX_REATTEMPTS
          /\ _attempts'[c] <= _MAX_REATTEMPTS
          /\ Enqueues(c) <=> _attempts'[c] = _attempts[c] + 1
          /\ ~Enqueues(c) => _attempts'[c] = _attempts[c]
          /\ (EnrollReturned(c, "ERROR") /\ ~Enqueues(c) /\ pc' # "except") =>
                /\ _attempts[c] = _MAX_REATTEMPTS
                /\ _errors' = Append(_errors, c)]_vars

\* (A, None) came from the queue twice and failed both times, which used up its
\* two reattempts; its two reattempts failed too and each was recorded as an
\* error, with Enrolled for (B, None) in between, so that the breaker never
\* tripped.
C26_Witness ==
    /\ pc = "returned"
    /\ ~trip.tripped
    /\ taken[CourseWithCoupon("A", None)] = 2
    /\ _attempts[CourseWithCoupon("A", None)] = _MAX_REATTEMPTS
    /\ driver_calls[CourseWithCoupon("A", None)] =
          <<"ERROR", "ERROR", "ERROR", "ERROR">>
    /\ Count(_errors, CourseWithCoupon("A", None)) = 2


\* ------------------------------------------------------------------ C27
\* The step raises ConsecutiveErrors.
Trips == trip'.tripped /\ ~trip.tripped

\* C27: Enroll is only called with the consecutive-error counter at most
\* _MAX_CONSECUTIVE_ERRORS; ENROLLED, TO_BLACKLIST and PAID set it to 0 and
\* never trip; ERROR adds one and trips exactly when the counter was at
\* _MAX_CONSECUTIVE_ERRORS, that is on the fourth ERROR in a row; every step
\* without an Enroll call (a course skipped as contained, the None that ends
\* the first loop) leaves the counter as it is.
C27_TripOnFourthError ==
    [][/\ \A c \in SpecificCourses :
             /\ EnrollCalled(c) => _consecutive_errors <= _MAX_CONSECUTIVE_ERRORS
             /\ \A state \in State \ {"ERROR"} :
                   EnrollReturned(c, state) =>
                       (_consecutive_errors' = 0 /\ ~Trips)
             /\ EnrollReturned(c, "ERROR") =>
                   /\ _consecutive_errors' = _consecutive_errors + 1
                   /\ Trips <=> _consecutive_errors = _MAX_CONSECUTIVE_ERRORS
       /\ (\A c \in SpecificCourses : ~EnrollCalled(c)) =>
             (_consecutive_errors' = _consecutive_errors /\ ~Trips)]_vars

\* Three courses failed in the first loop, one after the other; the counter
\* was carried into the reattempt loop, where the first reattempt, the fourth
\* ERROR in a row, tripped the breaker.
C27_Witness ==
    /\ trip.tripped
    /\ trip.phase = "reattempt"
    /\ _consecutive_errors = _MAX_CONSECUTIVE_ERRORS + 1
    /\ driver_calls[CourseWithCoupon("A", None)] = <<"ERROR", "ERROR">>
    /\ driver_calls[CourseWithCoupon("A", "X")] = <<"ERROR">>
    /\ driver_calls[CourseWithCoupon("B", None)] = <<"ERROR">>
    /\ driver_calls[CourseWithCoupon("B", "X")] = << >>


\* ------------------------------------------------------------------ C28
\* C28 as stated: on an ERROR that does not trip the breaker the attempt
\* counter of the course is incremented first, and the course is enqueued for
\* reattempt only if the incremented counter is below _MAX_REATTEMPTS;
\* otherwise it is recorded as an error.
C28_IncrementThenTest_Original ==
    [][\A c \in SpecificCourses :
          (EnrollReturned(c, "ERROR") /\ ~Trips) =>
              /\ _attempts'[c] = _attempts[c] + 1
              /\ Enqueues(c) <=> _attempts'[c] < _MAX_REATTEMPTS
              /\ ~Enqueues(c) => _errors' = Append(_errors, c)]_vars

\* C28, amended: on an ERROR that does not trip the breaker the attempt counter
\* of the course is tested before it is incremented: if it is below
\* _MAX_REATTEMPTS, it is incremented and the course is enqueued for reattempt
\* (so the course is enqueued with an incremented counter of 1 and of 2);
\* otherwise the counter stays at _MAX_REATTEMPTS and the course is recorded as
\* an error.
C28_TestThenIncrement ==
    [][\A c \in SpecificCourses :
          (EnrollReturned(c, "ERROR") /\ ~Trips) =>
              IF _attempts[c] < _MAX_REATTEMPTS
              THEN /\ _attempts'[c] = _attempts[c] + 1
                   /\ Enqueues(c)
                   /\ _errors' = _errors
              ELSE /\ _attempts'[c] = _attempts[c]
                   /\ ~Enqueues(c)
                   /\ _errors' = Append(_errors, c)]_vars

\* (A, X) failed in the first loop and again at its first reattempt; it was
\* enqueued again, with its counter now at _MAX_REATTEMPTS.
C28_Witness ==
    /\ pc = "reattempt"
    /\ taken[CourseWithCoupon("A", "X")] = 1
    /\ driver_calls[CourseWithCoupon("A", "X")] = <<"ERROR", "ERROR">>
    /\ _attempts[CourseWithCoupon("A", "X")] = _MAX_REATTEMPTS
    /\ CourseWithCoupon("A", "X") \in Range(_reattempt_queue)
    /\ _errors = << >>


\* ------------------------------------------------------------------ C29
\* Two stores with the same membership.
SameMembership(s1, s2) ==
    \A z \in UdemyCourseT : __contains__(s1, z) <=> __contains__(s2, z)

\* The compressed sequences with the same entries as input: its permutations,
\* and the sequences that repeat or drop repetitions of its entries.
Rearrangements(input) ==
    {b \in UNION {[1..n -> Range(input)] : n \in 0..MaxCompressed} :
        Range(b) = Range(input)}

\* C29: on every store, _add of x then y and _add of y then x give the same
\* membership, and load_compressed gives the same membership for every
\* rearrangement of its input (permuted, with entries repeated, with a tuple
\* whose url_id is also there as a str).
C29_AddOrderInsensitive ==
    /\ \A x, y \in UdemyCourseT :
          SameMembership(_add(_add(courses_store, x), y),
                         _add(_add(courses_store, y), x))
    /\ \A input \in CompressedInputs :
          \A b \in Rearrangements(input) :
             SameMembership(load_compressed(courses_store, input),
                            load_compressed(courses_store, b))

\* A load has left a tuple of A next to the str A in the store.
C29_Witness ==
    /\ last_op.op = "load_compressed"
    /\ "A" \in DOMAIN courses_store._any_coupon
    /\ CourseWithCoupon("A", "X") \in courses_store._specific_coupon


\* ------------------------------------------------------------------ C30
\* C30: whatever the scrapers put and whatever errors.pickle holds, no course
\* is passed to DriverProtocol.enroll more than 1 + _MAX_REATTEMPTS times in
\* a run.
C30_AtMostThreeCalls ==
    \A c \in SpecificCourses : Len(driver_calls[c]) <= 1 + _MAX_REATTEMPTS


\* ------------------------------------------------------------------ C31
\* C31: the list enroll_from_queue returns holds no course twice, whatever was
\* put on the queue and whatever the driver answered, with or without a
\* ConsecutiveErrors.
C31_ErrorsDistinct ==
    pc \in {"returned", "exited"} =>
        \A c \in SpecificCourses : Count(_errors, c) <= 1


\* ------------------------------------------------------------------ C32
\* C32: when enroll_from_queue has returned without a ConsecutiveErrors, the
\* store contains no course of the returned error list.
C32_ErrorsNotInStore ==
    (pc \in {"returned", "exited"} /\ ~trip.tripped) =>
        \A c \in Range(_errors) : ~__contains__(courses_store, c)


\* ------------------------------------------------------------------ C33
\* C33: optimize and create_compressed leave membership as it was: for every
\* course, __contains__ answers after the call what it answered before; the
\* only entries removed are specific courses whose url_id is a key of
\* _any_coupon, and _any_coupon is unchanged. (This is so whether the call
\* returns or raises.)
C33_OptimizeKeepsMembership ==
    [][last_op'.op \in {"optimize", "create_compressed"} =>
          /\ SameMembership(courses_store, courses_store')
          /\ courses_store'._any_coupon = courses_store._any_coupon
          /\ courses_store'._specific_coupon \subseteq courses_store._specific_coupon
          /\ (courses_store._specific_coupon \ courses_store'._specific_coupon)
                \subseteq Redundant(courses_store)]_vars

\* optimize has removed the specific course (A, X), which the any-coupon course
\* A covers.
C33_Witness ==
    /\ last_op.op = "optimize"
    /\ exception = "RuntimeError"
    /\ "A" \in DOMAIN courses_store._any_coupon
    /\ CourseWithCoupon("A", "X") \notin courses_store._specific_coupon
    /\ __contains__(courses_store, CourseWithCoupon("A", "X"))


\* ------------------------------------------------------------------ C34
\* C34: after discard(x) has returned, the store does not contain x, also when
\* x is a specific course whose url_id has an any-coupon entry.
C34_DiscardRemoves ==
    (last_op.op = "discard" /\ exception = None) =>
        ~__contains__(courses_store, last_op.course)


\* ------------------------------------------------------------------ C35
\* C35: a __contains__(x) that runs while another thread mutates the store
\* does not return False when the store contained x at every instant of the
\* call.
C35_NoFalseNegative ==
    (pc = "read" /\ reader_pc = "returned" /\ contained_throughout) =>
        reader_result = TRUE


\* ------------------------------------------------------------------ C36
\* The task_done calls made on the multithreading queue, and the items taken
\* from it.
TaskDoneCalls == Len(put_log) - unfinished_tasks

ItemsTaken == Len(put_log) - Len(mt_queue)

\* C36: the Enroller never has made more task_done calls than it has taken
\* items from the multithreading queue (so task_done never raises), and when
\* enroll_from_queue has returned, after a None or after a ConsecutiveErrors,
\* it has made one task_done call for every item put: the errors of
\* errors.pickle, the courses forwarded by _process_courses and the None.
C36_TaskDoneAccounting ==
    /\ unfinished_tasks >= 0
    /\ TaskDoneCalls >= 0
    /\ TaskDoneCalls <= ItemsTaken
    /\ pc \in {"returned", "exited"} =>
          /\ TaskDoneCalls = Len(put_log)
          /\ unfinished_tasks = 0
          /\ Sentinels # {}

\* enroll_from_queue has returned after a ConsecutiveErrors in the first loop
\* and the two task_done calls that follow the None, with an error of
\* errors.pickle and a forwarded course among the puts.
C36_Witness ==
    /\ pc = "returned"
    /\ trip.tripped
    /\ trip.phase = "get"
    /\ \E i, j \in DOMAIN put_log :
          put_log[i].origin = "errors" /\ put_log[j].origin = "bridge"
    /\ TaskDoneCalls = Len(put_log)


\* ------------------------------------------------------------------ C37
\* C37: every item the task of _process_courses takes from the async queue is
\* acknowledged, and the task ends on the None of __aexit__ and on nothing
\* else: a URL, the empty string included, is forwarded or dropped and the
\* task goes on to the next item.
C37_OnlySentinelStops ==
    [][ProcessStep =>
          /\ async_unfinished' = async_unfinished - 1
          /\ _task' = "done" <=> Head(async_queue).url = NoneItem
          /\ Head(async_queue).url # NoneItem =>
                \/ put_log' = put_log
                \/ Forwards(from_url(Head(async_queue).url))]_vars


\* ------------------------------------------------------------------ C38
\* The requests sent so far that ended in a caught exception.
Failed(i) == sent[i] \in Caught

\* What holds at every moment of a call of request_with_reattempts.
RequestSafe ==
    /\ Len(sent) <= max_attempts
    /\ sent_after_stop = 0
    /\ request_pc = "returned" =>
          IF request_result = NoneItem
          THEN /\ \A i \in DOMAIN sent : Failed(i)
               /\ stop_event \/ Len(sent) = max_attempts
          ELSE /\ sent # << >>
               /\ Last(sent) = "body"
               /\ request_result = [body |-> Len(sent)]
               /\ \A i \in 1..(Len(sent) - 1) : Failed(i)
    /\ (request_pc = "while" /\ Len(sent) = max_attempts) =>
          \A i \in DOMAIN sent : Failed(i)

\* C38: request_with_reattempts sends at most max_attempts requests, returns
\* the body of the first that succeeds, returns None when max_attempts requests
\* have failed, sends no request once the event is set and returns None at
\* its next test of it, and always ends.
C38_BoundedAndStoppable ==
    []RequestSafe /\ <>(request_pc \in {"returned", "raised"})

\* The default five requests have all failed and the call has returned None
\* with the event not set.
C38_Witness ==
    /\ pc = "request"
    /\ request_pc = "returned"
    /\ max_attempts = DefaultMaxAttempts
    /\ Len(sent) = DefaultMaxAttempts
    /\ ~stop_event
    /\ request_result = NoneItem


\* ------------------------------------------------------------------ C39
\* C39: when _scrape_from_posts has gone through its list, every url whose
\* request gave None is in _pending (which create_persistent_data returns)
\* exactly once, and no url whose page was fetched and whose links were put on
\* the queue is in _pending.
C39_PendingExact ==
    (pc = "posts" /\ posts_pc = "done") =>
        \A u \in Range(urls) :
            /\ post_outcome[u] = "None" => Count(_pending, u) = 1
            /\ post_outcome[u] = "links" => Count(_pending, u) = 0

====
